---- MODULE Spec2Model ----
(***************************************************************************)
(* CAPI call control of librm (plugins/capi/capi.c): the connection table, *)
(* the application-side requests (capi_call, capi_pickup, capi_hangup),    *)
(* the dispatch thread (capi_loop -> capi_indication / capi_confirmation)  *)
(* and the idle sources posted to the application's main context.          *)
(*                                                                         *)
(* Atomicity: a step of a thread is the code between two wire requests     *)
(* (isdn_lock .. isdn_unlock); the terminal CAPI_DISCONNECT indication is  *)
(* split further, at each of the stages its ordering is about.  Slot       *)
(* fields are read and written without the session mutex in the code, so   *)
(* steps of the two threads interleave freely.                             *)
(***************************************************************************)
EXTENDS Integers, Sequences, FiniteSets, TLC

(* ------------------------------------------------------------------ *)
(* Bounds of the model                                                *)
(* ------------------------------------------------------------------ *)

\* size of the connection table (CAPI_CONNECTIONS of capi.h), scaled down
CAPI_CONNECTIONS == 2

\* number of connection identifiers handed out before allocation stops
MaxAllocs == 3

\* PLCIs the controller announces: 1 .. MaxPlci
MaxPlci == 2

\* idle sources waiting on main_context before a new request or message starts
MaxPosted == 1

\* messages the dispatch thread takes off the queue in one run
MaxMsgs == 3

\* requests the application makes in one run
MaxReqs == 1

(* ------------------------------------------------------------------ *)
(* Program constants                                                   *)
(* ------------------------------------------------------------------ *)

\* static unsigned int id = 1024
FirstId == 1024

\* plci = ncci & 0x0000ffff
PlciMask == 65536

Slots == 1 .. CAPI_CONNECTIONS

PLCIs == 1 .. MaxPlci

\* the NCCI of the first logical connection on a PLCI
NcciOf(plci) == PlciMask + plci

NCCIs == { NcciOf(p) : p \in PLCIs }

PlciOfNcci(ncci) == ncci % PlciMask

\* states capi_hangup disconnects the physical channel in
PhysStates ==
  { "CONNECT_WAIT", "CONNECT_ACTIVE", "DISCONNECT_B3_REQ", "DISCONNECT_B3_WAIT",
    "DISCONNECT_ACTIVE", "INCOMING_WAIT" }

\* states capi_hangup disconnects the bearer channel in
B3States == { "CONNECT_B3_WAIT", "CONNECTED" }

\* every state the code names
States == PhysStates \cup B3States \cup { "RINGING", "IDLE" }

\* a value of enum state that no case label of capi_hangup names
UnexpectedStates == { "UNEXPECTED" }

(* ------------------------------------------------------------------ *)
(* Strings: sequences of character codes                               *)
(* ------------------------------------------------------------------ *)

NullStr == << >>

\* "unknown"
StrUnknown == << 117, 110, 107, 110, 111, 119, 110 >>

\* "anonymous"
StrAnonymous == << 97, 110, 111, 110, 121, 109, 111, 117, 115 >>

\* '#'
ChHash == 35

RECURSIVE IndexOf(_, _, _)
IndexOf(s, ch, from) ==
  IF from > Len(s) THEN 0
  ELSE IF s[from] = ch THEN from
  ELSE IndexOf(s, ch, from + 1)

\* trg ? trg + 1 : target, with trg = strchr(target, '#')
AfterHash(target) ==
  LET k == IndexOf(target, ChHash, 1)
  IN  IF k = 0 THEN target ELSE SubSeq(target, k + 1, Len(target))

\* the bytes of a zero-terminated buffer up to the first NUL
RECURSIVE CStr(_)
CStr(buf) ==
  IF buf = << >> \/ Head(buf) = 0 THEN << >>
  ELSE << Head(buf) >> \o CStr(Tail(buf))

\* byte k (0-based) of an information element, 0 past its end
ByteAt(e, k) == IF k + 1 <= Len(e) THEN e[k + 1] ELSE 0

\* memcpy(number, e + from, n) into a zeroed buffer, read back as a string
CopyOut(e, from, n) ==
  CStr([ k \in 1 .. n |-> ByteAt(e, from + k - 1) ])

\* an absent information element (a NULL pointer)
NullElem == << >>

\* capi_get_source_no: pn is CONNECT_IND_CALLINGPARTYNUMBER, ie is
\* INFO_IND_INFOELEMENT of the same message
capi_get_source_no(pn, ie) ==
  LET pnX == IF pn = NullElem THEN ie ELSE pn
      len == IF pnX = NullElem THEN 0 ELSE pnX[1]
      number ==
        IF len <= 1 THEN StrUnknown
        ELSE IF ByteAt(pnX, 2) >= 128
             THEN CopyOut(pnX, 3, pnX[1] - 2)
             ELSE CopyOut(pnX, 2, pnX[1] - 1)
  IN  IF number = << >> THEN StrAnonymous ELSE number

\* capi_get_target_no: x is CONNECT_IND_CALLEDPARTYNUMBER
capi_get_target_no(x0, ie) ==
  LET x == IF x0 = NullElem THEN ie ELSE x0
      len == IF x = NullElem THEN 0 ELSE x[1]
      number ==
        IF len <= 1 THEN StrUnknown
        ELSE CopyOut(x, 2, x[1] - 1)
  IN  IF number = << >> THEN StrAnonymous ELSE number

(* ------------------------------------------------------------------ *)
(* State                                                               *)
(* ------------------------------------------------------------------ *)

VARIABLES
  session,            \* the shared session reference is set (non-NULL)
  conn,               \* session->connection[]
  id,                 \* the next connection identifier
  input_thread_state, \* session->input_thread_state
  rm_connections,     \* RmConnection objects of the application: [id, slot]
  posted,             \* idle sources attached to main_context, not yet run
  dpc,                \* dispatch thread: position
  dslot,              \* dispatch thread: connection found by the handler
  dlog,               \* dispatch thread: what the handler in progress did so far
  apc,                \* application thread: position
  aslot,              \* application thread: connection of the request
  astate,             \* application thread: connection->state as the request read it
  aargs,              \* application thread: source and target of capi_call
  alog,               \* application thread: what the request in progress did so far
  out,                \* the request or handler the last step completed, if any
  msgs,               \* messages taken off the queue so far
  reqs,               \* requests made so far
  appl_id,            \* session->appl_id
  isdn_mutex,         \* session->isdn_mutex: the thread holding it, or "free"
  capi_loop_cancel,   \* capi_loop_cancel is cancelled
  loop_cancel,        \* capi_loop: the cancellable the thread was started with is cancelled
  todo,               \* per thread: the statements it has still to execute
  held                \* wire requests issued since isdn_mutex was last acquired

vars ==
  << session, conn, id, input_thread_state, rm_connections, posted,
     dpc, dslot, dlog, apc, aslot, astate, aargs, alog, out, msgs, reqs,
     appl_id, isdn_mutex, capi_loop_cancel, loop_cancel, todo, held >>

\* the session's registration, its mutex and what the threads have in progress
svars == << appl_id, isdn_mutex, capi_loop_cancel, loop_cancel, todo, held >>

\* the dispatch thread and the application thread
Threads == { "disp", "app" }

\* no statement in progress
NoTodo == [ t \in Threads |-> << >> ]

\* an application id as CAPI20_REGISTER hands out
ApplId == 1

\* a registered session with its mutex unlocked and nothing in progress
IdleSession ==
  /\ appl_id = ApplId /\ isdn_mutex = "free" /\ capi_loop_cancel = FALSE
  /\ loop_cancel = FALSE
  /\ todo = NoTodo /\ held = 0

dvars == << dpc, dslot, dlog >>

avars == << apc, aslot, astate, aargs, alog >>

\* a slot after memset(connection, 0, sizeof(struct capi_connection)); the
\* fields capi.c only stores (connect_time, ncpi, reason_b3, audio, buffers)
\* are left out
ZeroConn ==
  [ id |-> 0, plci |-> 0, ncci |-> 0, state |-> "IDLE", type |-> "NONE",
    early_b3 |-> 0, hooks |-> "none", priv |-> FALSE,
    source |-> NullStr, target |-> NullStr, reason |-> 0 ]

\* a slot is free iff plci == 0 && ncci == 0
IsFree(c) == c.plci = 0 /\ c.ncci = 0

NonFree(tbl) == { i \in Slots : ~IsFree(tbl[i]) }

\* one entry of a thread's log: a wire request or a local stage
Ev(op, ch) == [ op |-> op, ch |-> ch ]

\* an idle source on main_context
Note(kind, c, i) ==
  [ kind |-> kind, id |-> c.id, slot |-> i, source |-> NullStr, target |-> NullStr ]

\* rm_connection_find_by_id
rm_connection_find_by_id(reg, cid) == \E r \in reg : r.id = cid

\* the smallest member of a non-empty set of slots
First(S) == CHOOSE i \in S : \A j \in S : i <= j

\* what a completed request or handler leaves to be seen: its name, its
\* connection, the state it found, its log and its return value
Out(op, slot, st, log, ret) ==
  [ op |-> op, slot |-> slot, st |-> st, log |-> log, ret |-> ret ]

NoOut == Out("none", 0, "IDLE", << >>, 0)

(* ------------------------------------------------------------------ *)
(* Connection pool                                                     *)
(* ------------------------------------------------------------------ *)

\* capi_get_free_connection with the identifier drawn before the scan
capi_get_free_connection_eager(sess, tbl, nid) ==
  LET free == { i \in Slots : IsFree(tbl[i]) }
  IN  IF ~sess \/ free = {} THEN [ ret |-> 0, tbl |-> tbl, id |-> nid + 1 ]
      ELSE [ ret |-> First(free),
             tbl |-> [ tbl EXCEPT ![First(free)].id = nid,
                                  ![First(free)].state = "IDLE" ],
             id  |-> nid + 1 ]

\* capi_get_free_connection: ret = 0 stands for NULL
capi_get_free_connection(sess, tbl, nid) ==
  LET free == { i \in Slots : IsFree(tbl[i]) }
  IN  IF ~sess \/ free = {} THEN [ ret |-> 0, tbl |-> tbl, id |-> nid ]
      ELSE [ ret |-> First(free),
             tbl |-> [ tbl EXCEPT ![First(free)].id = nid,
                                  ![First(free)].state = "IDLE" ],
             id  |-> nid + 1 ]

\* capi_connection_set_type (its result is ignored by both callers)
capi_connection_set_type(c, type) ==
  CASE type = "PHONE" -> [ c EXCEPT !.type = type, !.hooks = "phone", !.early_b3 = 1 ]
    [] type = "FAX"   -> [ c EXCEPT !.type = type, !.hooks = "fax", !.early_b3 = 0 ]
    [] OTHER          -> [ c EXCEPT !.type = type ]

\* capi_set_free: the zeroed slot, and whether connection->clean ran
capi_set_free(c) ==
  [ conn |-> ZeroConn, cleaned |-> (c.priv /\ c.hooks = "fax") ]

\* the log of capi_set_free
FreeLog(c) ==
  IF capi_set_free(c).cleaned THEN << Ev("clean", c.id), Ev("free", 0) >>
  ELSE << Ev("free", 0) >>

\* capi_find_plci: 0 stands for NULL
capi_find_plci(tbl, plci) ==
  LET hit == { i \in Slots : tbl[i].plci = plci }
  IN  IF hit = {} THEN 0 ELSE First(hit)

\* capi_find_ncci
capi_find_ncci(tbl, ncci) ==
  LET hit == { i \in Slots : tbl[i].ncci = ncci }
  IN  IF hit = {} THEN 0 ELSE First(hit)

\* capi_find_new
capi_find_new(tbl) ==
  LET hit == { i \in Slots : tbl[i].plci = 0 /\ tbl[i].type # "NONE" }
  IN  IF hit = {} THEN 0 ELSE First(hit)

\* connection_status: an idle source, if the application knows the connection
connection_status(reg, c, i) ==
  IF rm_connection_find_by_id(reg, c.id) THEN { Note("status", c, i) } ELSE {}

\* capi_connection_disconnect
capi_connection_disconnect(reg, c, i) ==
  IF rm_connection_find_by_id(reg, c.id) THEN { Note("disconnect", c, i) } ELSE {}

\* capi_connection_connect
capi_connection_connect(reg, c, i) ==
  IF rm_connection_find_by_id(reg, c.id) THEN { Note("connect", c, i) } ELSE {}

(* ------------------------------------------------------------------ *)
(* capi_hangup, capi_pickup, capi_call                                 *)
(* ------------------------------------------------------------------ *)

\* results of a wire request: CapiNoError or an error (0x2001)
Infos == { 0, 8193 }

\* capi_hangup, case STATE_CONNECT_WAIT .. STATE_INCOMING_WAIT, and the retry
\* of the bearer case: DISCONNECT_REQ on the PLCI and what follows its result
HangupPhys(c, reg, i, info) ==
  [ c     |-> [ c EXCEPT !.state = IF info # 0 THEN "IDLE" ELSE "DISCONNECT_ACTIVE" ],
    log   |-> << Ev("DISCONNECT_REQ", c.plci) >>,
    notes |-> IF info # 0 THEN connection_status(reg, c, i) ELSE {},
    more  |-> FALSE ]

\* the bearer case with a successful bearer disconnect followed by a
\* physical disconnect all the same
HangupB3_both(c, reg, i, info) ==
  [ c     |-> [ c EXCEPT !.state = "DISCONNECT_B3_REQ" ],
    log   |-> << Ev("DISCONNECT_B3_REQ", c.ncci) >>,
    notes |-> {},
    more  |-> TRUE ]

\* capi_hangup, case STATE_CONNECT_B3_WAIT, STATE_CONNECTED: DISCONNECT_B3_REQ
\* on the NCCI; more = the physical disconnect is to follow
HangupB3(c, reg, i, info) ==
  [ c     |-> IF info # 0 THEN c ELSE [ c EXCEPT !.state = "DISCONNECT_B3_REQ" ],
    log   |-> << Ev("DISCONNECT_B3_REQ", c.ncci) >>,
    notes |-> {},
    more  |-> info # 0 ]

\* the RINGING case with the state left as it was when the response fails
HangupReject_keep(c, reg, i, info) ==
  [ c     |-> IF info # 0 THEN c ELSE [ c EXCEPT !.state = "IDLE" ],
    log   |-> << Ev("CONNECT_RESP_REJECT", c.plci) >>,
    notes |-> IF info # 0 THEN connection_status(reg, c, i) ELSE {},
    more  |-> FALSE ]

\* capi_hangup, case STATE_RINGING: CONNECT_RESP with reject = 3
HangupReject(c, reg, i, info) ==
  [ c     |-> [ c EXCEPT !.state = "IDLE" ],
    log   |-> << Ev("CONNECT_RESP_REJECT", c.plci) >>,
    notes |-> IF info # 0 THEN connection_status(reg, c, i) ELSE {},
    more  |-> FALSE ]

\* capi_hangup, case STATE_IDLE and default
HangupNone(c) == [ c |-> c, log |-> << >>, notes |-> {}, more |-> FALSE ]

\* the switch of capi_hangup with the default case treated as the physical case
HangupFirst_default(state, c, reg, i, info) ==
  CASE state \in B3States     -> HangupB3(c, reg, i, info)
    [] state = "RINGING"      -> HangupReject(c, reg, i, info)
    [] state = "IDLE"         -> HangupNone(c)
    [] OTHER                  -> HangupPhys(c, reg, i, info)

\* the switch of capi_hangup on the state read at entry, up to the result of
\* its first wire request
HangupFirst(state, c, reg, i, info) ==
  CASE state \in PhysStates   -> HangupPhys(c, reg, i, info)
    [] state \in B3States     -> HangupB3(c, reg, i, info)
    [] state = "RINGING"      -> HangupReject(c, reg, i, info)
    [] OTHER                  -> HangupNone(c)

\* capi_hangup run without interruption, as the dispatch thread calls it
capi_hangup(c, reg, i, info1, info2) ==
  LET f == HangupFirst(c.state, c, reg, i, info1)
      r == HangupPhys(f.c, reg, i, info2)
  IN  IF f.more
      THEN [ c |-> r.c, log |-> f.log \o r.log, notes |-> f.notes \cup r.notes ]
      ELSE [ c |-> f.c, log |-> f.log, notes |-> f.notes ]

\* the state check of capi_pickup letting every state through
PickupCheck_any(state) == TRUE

\* capi_pickup: if (connection->state != STATE_RINGING) return -1
PickupCheck(state) == state = "RINGING"

\* capi_pickup, else branch: the accepting CONNECT_RESP and the new state
PickupResp(c) ==
  [ c   |-> [ c EXCEPT !.state = "INCOMING_WAIT" ],
    log |-> << Ev("CONNECT_RESP_ACCEPT", c.plci) >> ]

\* capi_call after CONNECT_REQ with the slot kept on a synchronous failure
CallReq_leak(c, src, trg, err) ==
  IF err # 0
  THEN [ c |-> c, log |-> << Ev("CONNECT_REQ", 0) >>, ok |-> FALSE ]
  ELSE [ c   |-> [ c EXCEPT !.target = trg, !.source = src ],
         log |-> << Ev("CONNECT_REQ", 0) >>,
         ok  |-> TRUE ]

\* capi_call from CONNECT_REQ on: err is the result of the request
CallReq(c, src, trg, err) ==
  IF err # 0
  THEN [ c   |-> capi_set_free(c).conn,
         log |-> << Ev("CONNECT_REQ", 0) >> \o FreeLog(c),
         ok  |-> FALSE ]
  ELSE [ c   |-> [ c EXCEPT !.target = trg, !.source = src ],
         log |-> << Ev("CONNECT_REQ", 0) >>,
         ok  |-> TRUE ]

(* ------------------------------------------------------------------ *)
(* Initial state: a registered session with an empty table, the        *)
(* dispatch thread waiting for a message, no request in progress       *)
(* ------------------------------------------------------------------ *)

NoArgs == [ src |-> NullStr, trg |-> NullStr ]

Init ==
  /\ session = TRUE
  /\ conn = [ i \in Slots |-> ZeroConn ]
  /\ id = FirstId
  /\ input_thread_state = 0
  /\ rm_connections = {}
  /\ posted = {}
  /\ dpc = "wait" /\ dslot = 0 /\ dlog = << >>
  /\ apc = "idle" /\ aslot = 0 /\ astate = "IDLE" /\ aargs = NoArgs /\ alog = << >>
  /\ out = NoOut
  /\ msgs = 0 /\ reqs = 0
  /\ IdleSession

\* the process runs: the dispatch thread has not crashed it
Running == dpc # "crashed"

\* identifiers are left to hand out
IdsLeft == id < FirstId + MaxAllocs

\* the main context keeps up with the idle sources
PostRoom == Cardinality(posted) < MaxPosted

(* ------------------------------------------------------------------ *)
(* Application thread                                                  *)
(* ------------------------------------------------------------------ *)

\* numbers capi_call is asked to dial from: "1" and the empty string
CallNumbers == { << 49 >>, << >> }

\* session types capi_call and capi_pickup are asked for
CallTypes == { "PHONE", "FAX" }

\* the application makes its next request
Request ==
  /\ Running /\ apc = "idle" /\ PostRoom /\ reqs < MaxReqs
  /\ reqs' = reqs + 1 /\ msgs' = msgs
  /\ UNCHANGED svars

\* the request is over: the thread is back in its caller
AppDone ==
  /\ apc' = "idle" /\ aslot' = 0 /\ astate' = "IDLE" /\ aargs' = NoArgs /\ alog' = << >>

\* capi_call up to isdn_lock(): the argument checks, capi_get_free_connection
\* and capi_connection_set_type
AppCallStart(src, trg, type) ==
  /\ Request /\ IdsLeft
  /\ LET g == capi_get_free_connection(session, conn, id)
     IN  IF ~session \/ Len(src) < 1 \/ Len(trg) < 1
         THEN /\ AppDone
              /\ out' = Out("call_args", 0, "IDLE", << >>, 0)
              /\ UNCHANGED << conn, id >>
         ELSE IF g.ret = 0
         THEN /\ AppDone
              /\ out' = Out("call_full", 0, "IDLE", << >>, 0)
              /\ conn' = g.tbl /\ id' = g.id
         ELSE /\ apc' = "call_req" /\ aslot' = g.ret
              /\ aargs' = [ src |-> src, trg |-> trg ]
              /\ astate' = astate /\ alog' = << >>
              /\ out' = NoOut
              /\ conn' = [ g.tbl EXCEPT ![g.ret] = capi_connection_set_type(@, type) ]
              /\ id' = g.id
  /\ UNCHANGED << session, input_thread_state, rm_connections, posted, dvars >>

\* capi_call from CONNECT_REQ to its return; the caller of a successful
\* capi_call creates the RmConnection of the new connection
AppCallReq ==
  /\ Running /\ apc = "call_req"
  /\ \E err \in Infos :
       LET r == CallReq(conn[aslot], aargs.src, aargs.trg, err)
       IN  /\ conn' = [ conn EXCEPT ![aslot] = r.c ]
           /\ out' = Out("call", aslot, "IDLE", alog \o r.log, IF r.ok THEN aslot ELSE 0)
           /\ rm_connections' =
                IF r.ok THEN rm_connections \cup { [ id |-> r.c.id, slot |-> aslot ] }
                ELSE rm_connections
  /\ AppDone
  /\ UNCHANGED << svars, msgs, reqs, session, id, input_thread_state, posted, dvars >>

\* connections the application holds a pointer to (RmConnection.priv)
Held == { r.slot : r \in rm_connections }

\* capi_pickup up to isdn_lock(): capi_connection_set_type and the state check
AppPickupStart(i, type) ==
  /\ Request /\ i \in Held
  /\ conn' = [ conn EXCEPT ![i] = capi_connection_set_type(@, type) ]
  /\ IF PickupCheck(conn[i].state)
     THEN /\ apc' = "pick_resp" /\ aslot' = i /\ astate' = conn[i].state
          /\ aargs' = aargs /\ alog' = << >>
          /\ out' = NoOut
     ELSE /\ AppDone
          /\ out' = Out("pickup", i, conn[i].state, << >>, -1)
  /\ UNCHANGED << session, id, input_thread_state, rm_connections, posted, dvars >>

\* capi_pickup from CONNECT_RESP to its return
AppPickupResp ==
  /\ Running /\ apc = "pick_resp"
  /\ LET r == PickupResp(conn[aslot])
     IN  /\ conn' = [ conn EXCEPT ![aslot] = r.c ]
         /\ out' = Out("pickup", aslot, astate, alog \o r.log, 0)
  /\ AppDone
  /\ UNCHANGED << svars, msgs, reqs, session, id, input_thread_state, rm_connections, posted, dvars >>

\* capi_hangup up to isdn_lock(): the switch on connection->state
AppHangupStart(i) ==
  /\ Request /\ i \in Held
  /\ IF HangupFirst(conn[i].state, conn[i], rm_connections, i, 0).log = << >>
     THEN /\ AppDone
          /\ out' = Out("hangup", i, conn[i].state, << >>, 0)
     ELSE /\ apc' = "hang_req" /\ aslot' = i /\ astate' = conn[i].state
          /\ aargs' = aargs /\ alog' = << >>
          /\ out' = NoOut
  /\ UNCHANGED << session, conn, id, input_thread_state, rm_connections, posted, dvars >>

\* capi_hangup: the first wire request of the case chosen and what follows
\* its result
AppHangupReq ==
  /\ Running /\ apc = "hang_req"
  /\ \E info \in Infos :
       LET r == HangupFirst(astate, conn[aslot], rm_connections, aslot, info)
       IN  /\ conn' = [ conn EXCEPT ![aslot] = r.c ]
           /\ posted' = posted \cup r.notes
           /\ IF r.more
              THEN /\ apc' = "hang_retry" /\ alog' = alog \o r.log
                   /\ UNCHANGED << aslot, astate, aargs >>
                   /\ out' = NoOut
              ELSE /\ AppDone
                   /\ out' = Out("hangup", aslot, astate, alog \o r.log, 0)
  /\ UNCHANGED << svars, msgs, reqs, session, id, input_thread_state, rm_connections, dvars >>

\* capi_hangup: the physical disconnect after a failed bearer disconnect
AppHangupRetry ==
  /\ Running /\ apc = "hang_retry"
  /\ \E info \in Infos :
       LET r == HangupPhys(conn[aslot], rm_connections, aslot, info)
       IN  /\ conn' = [ conn EXCEPT ![aslot] = r.c ]
           /\ posted' = posted \cup r.notes
           /\ out' = Out("hangup", aslot, astate, alog \o r.log, 0)
  /\ AppDone
  /\ UNCHANGED << svars, msgs, reqs, session, id, input_thread_state, rm_connections, dvars >>

AppNext ==
  \/ \E src \in CallNumbers, type \in CallTypes : AppCallStart(src, << 50 >>, type)
  \/ AppCallReq
  \/ \E i \in Slots, type \in CallTypes : AppPickupStart(i, type)
  \/ AppPickupResp
  \/ \E i \in Slots : AppHangupStart(i)
  \/ AppHangupReq
  \/ AppHangupRetry

(* ------------------------------------------------------------------ *)
(* Dispatch thread: capi_loop, capi_indication, capi_confirmation      *)
(* ------------------------------------------------------------------ *)

\* CIP values of CONNECT_IND that are accepted
AcceptedCips == { 1, 4, 16, 17 }

\* CIP values the controller indicates (2: unrestricted digital information)
Cips == AcceptedCips \cup { 2 }

\* calling / called party number elements of the CONNECT_IND messages:
\* "12" calls "5#3"
NumberPairs ==
  { [ calling |-> << 4, 0, 128, 49, 50 >>, called |-> << 4, 128, 53, 35, 51 >> ] }

\* DISCONNECT_IND_REASON of the messages: 0x3490
Reasons == { 13456 }

\* the controller announces a PLCI no connection of the table carries
FreshPlci(plci) == \A i \in Slots : conn[i].plci # plci

\* the state of the connection a handler found
StateOf(i) == IF i = 0 THEN "IDLE" ELSE conn[i].state

\* the dispatch thread takes the next message off the queue
Fetch ==
  /\ dpc = "wait" /\ PostRoom /\ msgs < MaxMsgs
  /\ msgs' = msgs + 1 /\ reqs' = reqs
  /\ UNCHANGED svars

\* a handler dereferences a NULL connection: the process ends
Crashed(cmd) ==
  /\ dpc' = "crashed"
  /\ out' = Out(cmd, 0, "IDLE", << >>, -1)
  /\ UNCHANGED << dslot, dlog >>

\* capi_indication, CAPI_CONNECT, else branch: the fields of the new slot
ConnectAccept(c, plci, src, trg) ==
  [ c EXCEPT !.type = "NONE", !.state = "RINGING", !.plci = plci,
             !.source = src, !.target = trg ]

\* capi_indication, case CAPI_CONNECT, for a physical link the controller opens
Connect(plci) ==
  /\ Fetch /\ IdsLeft
  /\ \E cip \in Cips, np \in NumberPairs :
       LET src == capi_get_source_no(np.calling, NullElem)
           trg == capi_get_target_no(np.called, NullElem)
           g   == capi_get_free_connection(session, conn, id)
       IN  /\ FreshPlci(plci)
           /\ IF cip \notin AcceptedCips
              THEN /\ out' = Out("IND_CONNECT_IGNORED", 0, "IDLE",
                                 << Ev("CONNECT_RESP_IGNORE", plci) >>, 0)
                   /\ UNCHANGED << conn, id, dvars >>
              ELSE IF g.ret = 0
              THEN /\ Crashed("IND_CONNECT")
                   /\ conn' = g.tbl /\ id' = g.id
              ELSE /\ conn' = [ g.tbl EXCEPT ![g.ret] = ConnectAccept(@, plci, src, trg) ]
                   /\ id' = g.id
                   /\ out' = Out("IND_CONNECT", g.ret, "IDLE", << Ev("ALERT_REQ", plci) >>, 0)
                   /\ UNCHANGED dvars
  /\ UNCHANGED << session, input_thread_state, rm_connections, posted, avars >>

\* a connect indication on one of the links the other messages address
IndConnect == \E plci \in PLCIs : Connect(plci)

\* connection_ring with the notification emitted in-line, none posted
connection_ring_inline(c, i) ==
  [ reg |-> { [ id |-> c.id, slot |-> i ] }, notes |-> {} ]

\* connection_ring: rm_connection_add and the idle source of emit_incoming
connection_ring(c, i) ==
  [ reg   |-> { [ id |-> c.id, slot |-> i ] },
    notes |-> { [ kind |-> "incoming", id |-> c.id, slot |-> i,
                  source |-> c.source, target |-> AfterHash(c.target) ] } ]

\* one log entry for each idle source of a set
PostLog(notes) ==
  [ k \in 1 .. Cardinality(notes) |-> Ev("post", (CHOOSE n \in notes : TRUE).id) ]

\* alert confirmation infos: 0, 3 (alert already sent by another application)
\* and an error
AlertInfos == { 0, 3, 8193 }

\* capi_confirmation, case CAPI_ALERT
ConfAlert ==
  /\ Fetch
  /\ \E plci \in PLCIs, info \in AlertInfos :
       LET i == capi_find_plci(conn, plci)
       IN  IF info # 0 /\ info # 3
           THEN /\ conn' = IF i # 0 THEN [ conn EXCEPT ![i].state = "IDLE" ] ELSE conn
                /\ out' = Out("CONF_ALERT_ERR", i, StateOf(i), << >>, 0)
                /\ UNCHANGED << rm_connections, posted, dvars >>
           ELSE IF i = 0 \/ conn[i].target = NullStr
           THEN /\ Crashed("CONF_ALERT")
                /\ UNCHANGED << conn, rm_connections, posted >>
           ELSE LET r == connection_ring(conn[i], i)
                IN  /\ rm_connections' = rm_connections \cup r.reg
                    /\ posted' = posted \cup r.notes
                    /\ out' = Out("CONF_ALERT", i, StateOf(i), PostLog(r.notes), 0)
                    /\ UNCHANGED << conn, dvars >>
  /\ UNCHANGED << session, id, input_thread_state, avars >>

\* capi_confirmation, case CAPI_CONNECT, for the connection capi_find_new found
ConnectConf(tbl, reg, i, plci, info) ==
  IF info # 0
  THEN [ tbl   |-> [ tbl EXCEPT ![i] = capi_set_free(@).conn ],
         notes |-> connection_status(reg, tbl[i], i),
         log   |-> PostLog(connection_status(reg, tbl[i], i)) \o FreeLog(tbl[i]) ]
  ELSE [ tbl   |-> [ tbl EXCEPT ![i].plci = plci, ![i].state = "CONNECT_WAIT" ],
         notes |-> {},
         log   |-> << >> ]

ConfConnect ==
  /\ Fetch
  /\ \E plci \in PLCIs, info \in Infos :
       LET i == capi_find_new(conn)
           r == ConnectConf(conn, rm_connections, i, plci, info)
       IN  /\ FreshPlci(plci)
           /\ IF i = 0
              THEN /\ out' = Out("CONF_CONNECT_NONE", 0, "IDLE", << >>, 0)
                   /\ UNCHANGED << conn, posted >>
              ELSE /\ conn' = r.tbl
                   /\ posted' = posted \cup r.notes
                   /\ out' = Out("CONF_CONNECT", i, StateOf(i), r.log, info)
  /\ UNCHANGED << session, id, input_thread_state, rm_connections, dvars, avars >>

\* a handler that ran to its end on connection i with result r
Handled(cmd, i, r) ==
  /\ conn' = [ conn EXCEPT ![i] = r.c ]
  /\ posted' = posted \cup r.notes
  /\ out' = Out(cmd, i, conn[i].state, r.log, 0)

\* a handler that found no connection for its message
Ignored(cmd, log) ==
  /\ out' = Out(cmd, 0, "IDLE", log, 0)
  /\ UNCHANGED << conn, posted >>

\* capi_indication, case CAPI_CONNECT_ACTIVE, after capi_find_plci: audio is
\* the result of rm_audio_open, b3 the result of CONNECT_B3_REQ, h1 and h2 the
\* results of the requests of capi_hangup
ConnectActive(c, reg, i, audio, b3, h1, h2) ==
  LET resp   == << Ev("CONNECT_ACTIVE_RESP", c.plci) >>
      act    == [ c EXCEPT !.state = "CONNECT_ACTIVE" ]
      hact   == capi_hangup(act, reg, i, h1, h2)
      hfail  == capi_hangup(c, reg, i, h1, h2)
      opened == IF act.type = "PHONE" /\ ~audio
                THEN [ c |-> hact.c, log |-> hact.log, notes |-> hact.notes ]
                ELSE [ c |-> act, log |-> << >>, notes |-> {} ]
      told   == IF act.type = "PHONE" /\ ~audio
                THEN << Ev("rm_object_emit_message", 0) >> ELSE << >>
  IN  IF c.state = "INCOMING_WAIT"
      THEN [ c |-> opened.c, log |-> resp \o opened.log, notes |-> opened.notes ]
      ELSE IF c.early_b3 = 0
      THEN IF b3 # 0
           THEN [ c     |-> hfail.c,
                  log   |-> resp \o << Ev("CONNECT_B3_REQ", c.plci) >> \o hfail.log,
                  notes |-> connection_status(reg, c, i) \cup hfail.notes ]
           ELSE [ c     |-> opened.c,
                  log   |-> resp \o << Ev("CONNECT_B3_REQ", c.plci) >> \o told \o opened.log,
                  notes |-> opened.notes ]
      ELSE [ c |-> c, log |-> resp, notes |-> {} ]

IndConnectActive ==
  /\ Fetch
  /\ \E plci \in PLCIs, audio \in BOOLEAN, b3 \in Infos, h1 \in Infos, h2 \in Infos :
       LET i == capi_find_plci(conn, plci)
       IN  IF i = 0
           THEN Ignored("IND_CONNECT_ACTIVE_NONE", << Ev("CONNECT_ACTIVE_RESP", plci) >>)
           ELSE Handled("IND_CONNECT_ACTIVE", i,
                        ConnectActive(conn[i], rm_connections, i, audio, b3, h1, h2))
  /\ UNCHANGED << session, id, input_thread_state, rm_connections, dvars, avars >>

\* capi_indication, case CAPI_CONNECT_B3, after capi_find_plci
ConnectB3(c, reg, i, ncci, h1, h2) ==
  LET resp == << Ev("CONNECT_B3_RESP", ncci) >>
      h    == capi_hangup(c, reg, i, h1, h2)
  IN  IF c.state = "CONNECT_ACTIVE"
      THEN [ c     |-> [ c EXCEPT !.ncci = ncci, !.state = "CONNECT_B3_WAIT" ],
             log   |-> resp,
             notes |-> {} ]
      ELSE [ c |-> h.c, log |-> resp \o h.log, notes |-> h.notes ]

IndConnectB3 ==
  /\ Fetch
  /\ \E ncci \in NCCIs, h1 \in Infos, h2 \in Infos :
       LET i == capi_find_plci(conn, PlciOfNcci(ncci))
       IN  IF i = 0
           THEN Ignored("IND_CONNECT_B3_NONE", << >>)
           ELSE Handled("IND_CONNECT_B3", i,
                        ConnectB3(conn[i], rm_connections, i, ncci, h1, h2))
  /\ UNCHANGED << session, id, input_thread_state, rm_connections, dvars, avars >>

\* connection->init_data(connection): capi_fax_init_data attaches the fax
\* status to connection->priv
InitData(c) == IF c.hooks = "fax" THEN [ c EXCEPT !.priv = TRUE ] ELSE c

\* capi_phone_init_data starts the audio input thread
InitInputThread(c, its) == IF c.hooks = "phone" /\ its = 0 THEN 1 ELSE its

\* if (connection->init_data) connection->init_data(connection)
InitLog(c) == IF c.hooks # "none" THEN << Ev("init_data", c.id) >> ELSE << >>

\* the CONNECT_B3_ACTIVE handler without capi_enable_dtmf
ConnectB3Active_no_dtmf(c, reg, i, ncci) ==
  LET est == InitData([ c EXCEPT !.ncci = ncci, !.state = "CONNECTED" ])
  IN  [ c     |-> est,
        log   |-> << Ev("CONNECT_B3_ACTIVE_RESP", ncci) >> \o InitLog(c)
                  \o PostLog(capi_connection_connect(reg, est, i)),
        notes |-> capi_connection_connect(reg, est, i) ]

\* capi_indication, case CAPI_CONNECT_B3_ACTIVE, after capi_find_plci
ConnectB3Active(c, reg, i, ncci) ==
  LET est == InitData([ c EXCEPT !.ncci = ncci, !.state = "CONNECTED" ])
  IN  [ c     |-> est,
        log   |-> << Ev("CONNECT_B3_ACTIVE_RESP", ncci), Ev("FACILITY_REQ", c.plci) >>
                  \o InitLog(c) \o PostLog(capi_connection_connect(reg, est, i)),
        notes |-> capi_connection_connect(reg, est, i) ]

IndConnectB3Active ==
  /\ Fetch
  /\ \E ncci \in NCCIs :
       LET i == capi_find_plci(conn, PlciOfNcci(ncci))
       IN  IF i = 0
           THEN /\ Ignored("IND_CONNECT_B3_ACTIVE_NONE", << >>)
                /\ UNCHANGED input_thread_state
           ELSE /\ Handled("IND_CONNECT_B3_ACTIVE", i,
                           ConnectB3Active(conn[i], rm_connections, i, ncci))
                /\ input_thread_state' = InitInputThread(conn[i], input_thread_state)
  /\ UNCHANGED << session, id, rm_connections, dvars, avars >>

\* the DISCONNECT_B3 handler calling capi_hangup in every state
DisconnectB3_hangup(c, reg, i, ncci, h1, h2) ==
  LET resp == << Ev("DISCONNECT_B3_RESP", ncci) >>
      h    == capi_hangup([ c EXCEPT !.ncci = 0 ], reg, i, h1, h2)
  IN  [ c |-> h.c, log |-> resp \o h.log, notes |-> h.notes ]

\* capi_indication, case CAPI_DISCONNECT_B3, after capi_find_ncci
DisconnectB3(c, reg, i, ncci, h1, h2) ==
  LET resp == << Ev("DISCONNECT_B3_RESP", ncci) >>
      cl   == [ c EXCEPT !.ncci = 0 ]
      h    == capi_hangup(cl, reg, i, h1, h2)
  IN  IF c.state \in { "CONNECTED", "CONNECT_B3_WAIT" }
      THEN [ c |-> [ cl EXCEPT !.state = "DISCONNECT_ACTIVE" ], log |-> resp, notes |-> {} ]
      ELSE [ c |-> h.c, log |-> resp \o h.log, notes |-> h.notes ]

IndDisconnectB3 ==
  /\ Fetch
  /\ \E ncci \in NCCIs, h1 \in Infos :
       LET i == capi_find_ncci(conn, ncci)
       IN  IF i = 0
           THEN Ignored("IND_DISCONNECT_B3_NONE", << Ev("DISCONNECT_B3_RESP", ncci) >>)
           ELSE Handled("IND_DISCONNECT_B3", i,
                        DisconnectB3(conn[i], rm_connections, i, ncci, h1, h1))
  /\ UNCHANGED << session, id, input_thread_state, rm_connections, dvars, avars >>

(* ------------------------------------------------------------------ *)
(* capi_indication, case CAPI_DISCONNECT: one step for each stage      *)
(* ------------------------------------------------------------------ *)

DiscStages == { "disc_teardown", "disc_spin", "disc_notify", "disc_free" }

\* the order of the stages with the slot released before the notification
DiscStageAfter_free_first(stage) ==
  CASE stage = "disc_mark"     -> "disc_teardown"
    [] stage = "disc_teardown" -> "disc_free"
    [] stage = "disc_free"     -> "disc_notify"
    [] OTHER                   -> "wait"

\* the order of the statements of the case: the fields, switch
\* (connection->type), capi_connection_disconnect, capi_set_free, break
DiscStageAfter(stage) ==
  CASE stage = "disc_mark"     -> "disc_teardown"
    [] stage = "disc_teardown" -> "disc_notify"
    [] stage = "disc_notify"   -> "disc_free"
    [] OTHER                   -> "wait"

\* connection->reason, ->state, ->ncci, ->plci of the case
DisconnectMark(c, reason) ==
  [ c EXCEPT !.reason = reason, !.state = "IDLE", !.ncci = 0, !.plci = 0 ]

\* the handler moves on from a stage, having done what entries says
DiscAdvance(stage, entries) ==
  /\ dpc' = DiscStageAfter(stage)
  /\ IF DiscStageAfter(stage) = "wait"
     THEN /\ out' = Out("IND_DISCONNECT", dslot, "IDLE", dlog \o entries, 0)
          /\ dslot' = 0 /\ dlog' = << >>
     ELSE /\ out' = NoOut
          /\ dslot' = dslot /\ dlog' = dlog \o entries

\* DISCONNECT_RESP, capi_find_plci and the four fields
Disconnect(plci) ==
  /\ \E reason \in Reasons :
       LET i == capi_find_plci(conn, plci)
       IN  IF i = 0
           THEN /\ out' = Out("IND_DISCONNECT_NONE", 0, "IDLE",
                              << Ev("DISCONNECT_RESP", plci) >>, 0)
                /\ UNCHANGED << conn, dvars >>
           ELSE /\ conn' = [ conn EXCEPT ![i] = DisconnectMark(@, reason) ]
                /\ dpc' = DiscStageAfter("disc_mark")
                /\ dslot' = i
                /\ dlog' = << Ev("DISCONNECT_RESP", plci), Ev("reason", reason),
                              Ev("idle", 0) >>
                /\ out' = NoOut
  /\ UNCHANGED << session, id, input_thread_state, rm_connections, posted, avars >>

\* capi_indication, case CAPI_DISCONNECT, for one of the messages of the run
IndDisconnect ==
  /\ Fetch
  /\ \E plci \in PLCIs : Disconnect(plci)

\* switch (connection->type): the phone case asks the input thread to stop
DiscTeardown ==
  /\ dpc = "disc_teardown"
  /\ IF conn[dslot].type = "PHONE" /\ input_thread_state = 1
     THEN /\ input_thread_state' = 2
          /\ dpc' = "disc_spin" /\ out' = NoOut
          /\ UNCHANGED << dslot, dlog >>
     ELSE /\ DiscAdvance("disc_teardown", << Ev("teardown", 0) >>)
          /\ UNCHANGED input_thread_state
  /\ UNCHANGED << svars, msgs, reqs, session, conn, id, rm_connections, posted, avars >>

\* do { g_usleep(10); } while (session->input_thread_state != 0), then
\* rm_audio_close
DiscSpin ==
  /\ dpc = "disc_spin" /\ input_thread_state = 0
  /\ DiscAdvance("disc_teardown", << Ev("teardown", 0) >>)
  /\ UNCHANGED << svars, msgs, reqs, session, conn, id, input_thread_state, rm_connections, posted, avars >>

\* capi_connection_disconnect(connection)
DiscNotify ==
  /\ dpc = "disc_notify"
  /\ posted' = posted \cup capi_connection_disconnect(rm_connections, conn[dslot], dslot)
  /\ DiscAdvance("disc_notify", << Ev("notify", conn[dslot].id) >>)
  /\ UNCHANGED << svars, msgs, reqs, session, conn, id, input_thread_state, rm_connections, avars >>

\* capi_set_free(connection)
DiscFree ==
  /\ dpc = "disc_free"
  /\ conn' = [ conn EXCEPT ![dslot] = capi_set_free(@).conn ]
  /\ DiscAdvance("disc_free", FreeLog(conn[dslot]))
  /\ UNCHANGED << svars, msgs, reqs, session, id, input_thread_state, rm_connections, posted, avars >>

DispNext ==
  \/ IndConnect
  \/ ConfAlert
  \/ ConfConnect
  \/ IndConnectActive
  \/ IndConnectB3
  \/ IndConnectB3Active
  \/ IndDisconnectB3
  \/ IndDisconnect
  \/ DiscTeardown
  \/ DiscSpin
  \/ DiscNotify
  \/ DiscFree

(* ------------------------------------------------------------------ *)
(* Environment: the audio input thread and the application's main loop *)
(* ------------------------------------------------------------------ *)

\* the input thread sees the stop request and acknowledges it
InputThreadStop ==
  /\ Running /\ input_thread_state = 2
  /\ input_thread_state' = 0
  /\ out' = NoOut
  /\ UNCHANGED << svars, msgs, reqs, session, conn, id, rm_connections, posted, dvars, avars >>

\* the main loop runs one idle source; the handler of connection-disconnect
\* drops the RmConnection
Deliver ==
  /\ Running
  /\ \E n \in posted :
       /\ posted' = posted \ { n }
       /\ rm_connections' =
            IF n.kind = "disconnect" THEN { r \in rm_connections : r.id # n.id }
            ELSE rm_connections
  /\ out' = NoOut
  /\ UNCHANGED << svars, msgs, reqs, session, conn, id, input_thread_state, dvars, avars >>

Next == AppNext \/ DispNext \/ InputThreadStop \/ Deliver

Spec == Init /\ [][Next]_vars

(* ------------------------------------------------------------------ *)
(* capi_hangup from every state: a table whose slots hold connections  *)
(* the application knows, each in any state, and the application       *)
(* hanging them up                                                     *)
(* ------------------------------------------------------------------ *)

HangupConn(i, st) ==
  [ ZeroConn EXCEPT !.id = FirstId + i - 1, !.plci = i,
                    !.ncci = IF st \in B3States THEN NcciOf(i) ELSE 0,
                    !.state = st, !.type = "PHONE", !.hooks = "phone", !.early_b3 = 1 ]

InitHangup ==
  /\ session = TRUE
  /\ \E st \in [ Slots -> States \cup UnexpectedStates ] :
       conn = [ i \in Slots |-> HangupConn(i, st[i]) ]
  /\ id = FirstId + CAPI_CONNECTIONS
  /\ input_thread_state = 0
  /\ rm_connections = { [ id |-> FirstId + i - 1, slot |-> i ] : i \in Slots }
  /\ posted = {}
  /\ dpc = "wait" /\ dslot = 0 /\ dlog = << >>
  /\ apc = "idle" /\ aslot = 0 /\ astate = "IDLE" /\ aargs = NoArgs /\ alog = << >>
  /\ out = NoOut
  /\ msgs = 0 /\ reqs = 0
  /\ IdleSession

NextHangup ==
  \/ \E i \in Slots : AppHangupStart(i)
  \/ AppHangupReq
  \/ AppHangupRetry

SpecHangup == InitHangup /\ [][NextHangup]_vars

(* ------------------------------------------------------------------ *)
(* Properties                                                          *)
(* ------------------------------------------------------------------ *)

\* the terminal disconnect of slot i is not through: its handler is between
\* clearing the PLCI and releasing the slot, or its notification waits on
\* main_context
DisconnectPending(i) ==
  \/ dpc \in DiscStages /\ dslot = i
  \/ \E n \in posted : n.kind = "disconnect" /\ n.slot = i

\* this step hands slot i out under a new identifier
Allocates(i) == id' = id + 1 /\ conn'[i].id = id

\* C1: after the terminal disconnect indication of a connection, no allocation
\* (capi_call or an inbound connect indication) obtains its slot before the
\* slot was released and the 'disconnected' notification delivered.
C1_NoReuseBeforeDelivery ==
  [][ \A i \in Slots : DisconnectPending(i) => ~Allocates(i) ]_vars

PoolFull == NonFree(conn) = Slots

\* C2: with every slot non-free an allocation returns NULL, changes no slot
\* and consumes no identifier; never more than CAPI_CONNECTIONS slots are
\* non-free.
C2_FullPoolAllocation ==
  /\ [](Cardinality(NonFree(conn)) <= CAPI_CONNECTIONS)
  /\ [][ PoolFull =>
           /\ id' = id
           /\ ~(apc = "idle" /\ apc' = "call_req")
           /\ (out'.op \in { "call_full", "IND_CONNECT" } =>
                 conn' = conn /\ out'.slot = 0) ]_vars

C2_Witness == out.op = "call_full" /\ PoolFull /\ session

\* the stages of a handler's log, the wire response and the cleanup hook aside
StageOps(log) ==
  LET keep == { k \in DOMAIN log : log[k].op \notin { "DISCONNECT_RESP", "clean" } }
      nth(n) == CHOOSE k \in keep : Cardinality({ j \in keep : j < k }) = n - 1
  IN  [ n \in 1 .. Cardinality(keep) |-> log[nth(n)].op ]

\* C3: a terminal disconnect indication that matches a slot records the
\* reason, sets IDLE and clears PLCI and NCCI, runs the teardown of the
\* connection's kind, raises the 'disconnected' notification and releases the
\* slot, in this order.
C3_DisconnectOrder ==
  out.op = "IND_DISCONNECT" =>
    /\ StageOps(out.log) = << "reason", "idle", "teardown", "notify", "free" >>
    /\ out.log[1].op = "DISCONNECT_RESP"
    /\ conn[out.slot] = ZeroConn

C3_Witness ==
  /\ out.op = "IND_DISCONNECT"
  /\ \E k \in DOMAIN out.log : out.log[k].op = "clean"
  /\ \E n \in posted : n.kind = "disconnect" /\ n.slot = out.slot

\* C4: the connection a successful capi_call returned stays IDLE with PLCI 0
\* until the connect confirmation is processed.
C4_IdleUntilConfirmed ==
  [][ (out.op = "call" /\ out.ret # 0 /\ out'.op # "CONF_CONNECT") =>
        (conn'[out.ret].state = "IDLE" /\ conn'[out.ret].plci = 0) ]_vars

\* C5: when CONNECT_REQ fails, capi_call returns NULL and has zeroed the slot
\* it allocated: the slot is free again, every other slot is as it was.
C5_CallFailureReleases ==
  [][ (apc = "call_req" /\ out'.op = "call" /\ out'.ret = 0) =>
        /\ conn'[aslot] = ZeroConn
        /\ NonFree(conn') = NonFree(conn) \ { aslot }
        /\ \A j \in Slots \ { aslot } : conn'[j] = conn[j]
        /\ id' = id /\ posted' = posted /\ rm_connections' = rm_connections ]_vars

C5_Witness ==
  /\ out.op = "call" /\ out.ret = 0 /\ out.slot # 0
  /\ conn[out.slot] = ZeroConn
  /\ \E k \in DOMAIN out.log : out.log[k].op = "CONNECT_REQ"

C7_Pickup ==
  [][ /\ (apc = "idle" /\ out'.op = "pickup") =>
           /\ conn[out'.slot].state # "RINGING"
           /\ out'.ret = -1 /\ out'.log = << >>
           /\ conn'[out'.slot].state = conn[out'.slot].state
      /\ (apc = "idle" /\ apc' = "pick_resp") =>
           conn[aslot'].state = "RINGING"
      /\ (apc = "pick_resp" /\ apc' # "pick_resp") =>
           /\ out'.op = "pickup" /\ out'.ret = 0
           /\ out'.log = << Ev("CONNECT_RESP_ACCEPT", conn[aslot].plci) >>
           /\ conn'[aslot].state = "INCOMING_WAIT" ]_vars

C7_Witness ==
  /\ out.op = "pickup" /\ out.ret = 0 /\ out.st = "RINGING"
  /\ out.log = << Ev("CONNECT_RESP_ACCEPT", conn[out.slot].plci) >>
  /\ conn[out.slot].state = "INCOMING_WAIT" /\ conn[out.slot].plci # 0

\* the states capi_hangup has a request for
HandledStates ==
  { "CONNECT_WAIT", "CONNECT_ACTIVE", "CONNECT_B3_WAIT", "CONNECTED",
    "DISCONNECT_B3_REQ", "DISCONNECT_B3_WAIT", "DISCONNECT_ACTIVE", "INCOMING_WAIT",
    "RINGING" }

\* C8: capi_hangup on a connection that is IDLE or in a state outside the
\* handled set sends no request, posts no notification and changes no field of
\* the connection or of the session.
C8_HangupNoOp ==
  [][ /\ (apc = "idle" /\ apc' = "hang_req") =>
           conn[aslot'].state \in HandledStates
      /\ (apc = "idle" /\ out'.op = "hangup") =>
           /\ conn[out'.slot].state \notin HandledStates
           /\ out'.log = << >>
           /\ conn' = conn /\ posted' = posted /\ session' = session
           /\ id' = id /\ input_thread_state' = input_thread_state
           /\ rm_connections' = rm_connections ]_vars

C8_Witness ==
  /\ out.op = "hangup" /\ out.st \in UnexpectedStates /\ out.log = << >>
  /\ conn[out.slot].state \in UnexpectedStates

\* status notifications of connection c
StatusNotes(c, i) == { n \in posted' : n.kind = "status" /\ n.id = c.id /\ n.slot = i }

\* C9: capi_hangup in CONNECTED or CONNECT_B3_WAIT sends DISCONNECT_B3_REQ on
\* the NCCI; when it succeeds the state is DISCONNECT_B3_REQ and nothing else
\* is sent; when it fails one DISCONNECT_REQ on the PLCI follows, leaving
\* DISCONNECT_ACTIVE on success and IDLE with a status notification on
\* failure.
C9_HangupBearer ==
  [][ /\ (apc = "hang_req" /\ astate \in { "CONNECTED", "CONNECT_B3_WAIT" }
          /\ apc' # "hang_req") =>
           \/ /\ apc' = "idle" /\ out'.op = "hangup"
              /\ out'.log = << Ev("DISCONNECT_B3_REQ", conn[aslot].ncci) >>
              /\ conn'[aslot].state = "DISCONNECT_B3_REQ"
              /\ posted' = posted
           \/ /\ apc' = "hang_retry"
              /\ alog' = << Ev("DISCONNECT_B3_REQ", conn[aslot].ncci) >>
              /\ conn' = conn /\ posted' = posted
      /\ (apc = "hang_retry" /\ apc' # "hang_retry") =>
           /\ apc' = "idle" /\ out'.op = "hangup"
           /\ Len(alog) = 1
           /\ out'.log = alog \o << Ev("DISCONNECT_REQ", conn[aslot].plci) >>
           /\ \/ /\ conn'[aslot].state = "DISCONNECT_ACTIVE"
                 /\ posted' = posted
              \/ /\ conn'[aslot].state = "IDLE"
                 /\ posted' \ posted \subseteq StatusNotes(conn[aslot], aslot)
                 /\ rm_connection_find_by_id(rm_connections, conn[aslot].id) =>
                      StatusNotes(conn[aslot], aslot) # {} ]_vars

C9_Witness ==
  /\ out.op = "hangup" /\ out.st \in { "CONNECTED", "CONNECT_B3_WAIT" }
  /\ Len(out.log) = 2 /\ out.log[2].op = "DISCONNECT_REQ"
  /\ conn[out.slot].state = "IDLE"
  /\ \E n \in posted : n.kind = "status" /\ n.id = conn[out.slot].id

\* C10: capi_hangup in RINGING sends one rejecting CONNECT_RESP for the PLCI,
\* no disconnect request, and leaves the state IDLE whatever the result of the
\* response.
C10_HangupRinging ==
  [][ (apc = "hang_req" /\ astate = "RINGING" /\ apc' # "hang_req") =>
        /\ apc' = "idle" /\ out'.op = "hangup"
        /\ out'.log = << Ev("CONNECT_RESP_REJECT", conn[aslot].plci) >>
        /\ conn'[aslot].state = "IDLE" ]_vars

C10_Witness ==
  /\ out.op = "hangup" /\ out.st = "RINGING"
  /\ out.log = << Ev("CONNECT_RESP_REJECT", conn[out.slot].plci) >>
  /\ conn[out.slot].state = "IDLE" /\ conn[out.slot].plci # 0
  /\ \E n \in posted : n.kind = "status" /\ n.id = conn[out.slot].id

(* ------------------------------------------------------------------ *)
(* capi_call with every session type: a table whose slots are free or  *)
(* hold a connection in any state, and the application placing a call  *)
(* ------------------------------------------------------------------ *)

\* values of the type argument of capi_call: SESSION_PHONE, SESSION_FAX and
\* a value that is neither
AllCallTypes == CallTypes \cup { "OTHER" }

\* a slot of the table: free, or a connection in some state
CallConn(i, st) == IF st = "FREE" THEN ZeroConn ELSE HangupConn(i, st)

InitCall ==
  /\ session = TRUE
  /\ \E st \in [ Slots -> States \cup { "FREE" } ] :
       /\ conn = [ i \in Slots |-> CallConn(i, st[i]) ]
       /\ rm_connections =
            { [ id |-> FirstId + i - 1, slot |-> i ] : i \in { j \in Slots : st[j] # "FREE" } }
  /\ id = FirstId + CAPI_CONNECTIONS
  /\ input_thread_state = 0
  /\ posted = {}
  /\ dpc = "wait" /\ dslot = 0 /\ dlog = << >>
  /\ apc = "idle" /\ aslot = 0 /\ astate = "IDLE" /\ aargs = NoArgs /\ alog = << >>
  /\ out = NoOut
  /\ msgs = 0 /\ reqs = 0
  /\ IdleSession

NextCall ==
  \/ \E src \in CallNumbers, type \in AllCallTypes : AppCallStart(src, << 50 >>, type)
  \/ AppCallReq

SpecCall == InitCall /\ [][NextCall]_vars

\* C11: a capi_call whose type is neither SESSION_PHONE nor SESSION_FAX is
\* rejected at setup: it returns no connection and sends no CONNECT_REQ, so
\* no call of such a type ever gets as far as the request
C11_UnknownKindRejected ==
  [][ (apc = "call_req" /\ out'.op = "call" /\ conn[aslot].type \notin CallTypes)
        => (out'.ret = 0 /\ out'.log = << >>) ]_vars

(* ------------------------------------------------------------------ *)
(* capi_init: registration with the CAPI stack                         *)
(* ------------------------------------------------------------------ *)

\* controllers the profile may report
MaxControllers == 2

\* calls of capi_init in one behaviour
MaxInits == 2

\* application ids CAPI20_REGISTER may store: 0 and two valid ones
RegisterIds == { 0, 1, 2 }

\* what the stack answers to the calls of capi_init: the results of
\* CAPI20_ISINSTALLED, CAPI20_GET_PROFILE, CAPI20_REGISTER and of each
\* LISTEN_REQ, profile.ncontroller and the id CAPI20_REGISTER stores
InitEnvs ==
  [ installed : Infos, profile : Infos, ncontroller : 0 .. MaxControllers,
    register : Infos, appl_id : RegisterIds,
    listen : [ 1 .. MaxControllers -> Infos ] ]

\* the controller argument: all (<= 0) or a single one
Controllers == -1 .. MaxControllers

\* the controllers capi_init listens to
ListenRange(env, controller) ==
  IF controller <= 0 THEN 1 .. env.ncontroller ELSE { controller }

\* capi_init with both early failures reported as different values
capi_init_distinct(env, controller) ==
  LET range  == ListenRange(env, controller)
      failed == { i \in range : env.listen[i] # 0 }
      last   == IF failed = {} THEN MaxControllers ELSE First(failed)
      asked  == { i \in range : i <= last }
      listens == [ k \in 1 .. Cardinality(asked) |->
                     Ev("LISTEN_REQ", First({ i \in asked :
                          Cardinality({ j \in asked : j < i }) = k - 1 })) ]
  IN  IF env.installed # 0 THEN [ ret |-> -1, log |-> << >> ]
      ELSE IF env.profile # 0 THEN [ ret |-> -4, log |-> << >> ]
      ELSE IF env.ncontroller = 0 THEN [ ret |-> -1, log |-> << >> ]
      ELSE IF env.register # 0 \/ env.appl_id = 0
           THEN [ ret |-> -2, log |-> << Ev("REGISTER", 0) >> ]
      ELSE [ ret |-> IF failed # {} THEN -3 ELSE env.appl_id,
             log |-> << Ev("REGISTER", env.appl_id) >> \o listens ]

\* capi_init: the value returned and the calls made that reach the stack's
\* application table or the wire
capi_init(env, controller) ==
  LET range  == ListenRange(env, controller)
      failed == { i \in range : env.listen[i] # 0 }
      last   == IF failed = {} THEN MaxControllers ELSE First(failed)
      asked  == { i \in range : i <= last }
      listens == [ k \in 1 .. Cardinality(asked) |->
                     Ev("LISTEN_REQ", First({ i \in asked :
                          Cardinality({ j \in asked : j < i }) = k - 1 })) ]
  IN  IF env.installed # 0 THEN [ ret |-> -1, log |-> << >> ]
      ELSE IF env.profile # 0 THEN [ ret |-> -1, log |-> << >> ]
      ELSE IF env.ncontroller = 0 THEN [ ret |-> -1, log |-> << >> ]
      ELSE IF env.register # 0 \/ env.appl_id = 0
           THEN [ ret |-> -2, log |-> << Ev("REGISTER", 0) >> ]
      ELSE [ ret |-> IF failed # {} THEN -3 ELSE env.appl_id,
             log |-> << Ev("REGISTER", env.appl_id) >> \o listens ]

\* why a call of capi_init fails, if it does
InitCause(env, controller) ==
  IF env.installed # 0 THEN "stack unavailable"
  ELSE IF env.profile # 0 THEN "profile query failed"
  ELSE IF env.ncontroller = 0 THEN "no controller"
  ELSE IF env.register # 0 \/ env.appl_id = 0 THEN "register failed"
  ELSE IF \E i \in ListenRange(env, controller) : env.listen[i] # 0 THEN "listen failed"
  ELSE "none"

\* no session: capi_init is called by capi_session_init before there is one
InitInit ==
  /\ session = FALSE
  /\ conn = [ i \in Slots |-> ZeroConn ]
  /\ id = FirstId
  /\ input_thread_state = 0
  /\ rm_connections = {}
  /\ posted = {}
  /\ dpc = "wait" /\ dslot = 0 /\ dlog = << >>
  /\ apc = "idle" /\ aslot = 0 /\ astate = "IDLE" /\ aargs = NoArgs /\ alog = << >>
  /\ out = NoOut
  /\ msgs = 0 /\ reqs = 0
  /\ appl_id = -1 /\ isdn_mutex = "free" /\ capi_loop_cancel = FALSE
  /\ loop_cancel = FALSE
  /\ todo = NoTodo /\ held = 0

\* one call of capi_init; alog keeps the cause and the result of every call
CallInit ==
  /\ Len(alog) < MaxInits
  /\ \E env \in InitEnvs, controller \in Controllers :
       LET r == capi_init(env, controller)
       IN  /\ out' = Out("capi_init", 0, "IDLE", r.log, r.ret)
           /\ alog' = Append(alog, Ev(InitCause(env, controller), r.ret))
  /\ UNCHANGED << session, conn, id, input_thread_state, rm_connections, posted,
                  dvars, apc, aslot, astate, aargs, msgs, reqs, svars >>

SpecInit == InitInit /\ [][CallInit]_vars

\* the causes of failure the specification names
NamedCauses == { "stack unavailable", "profile query failed", "listen failed" }

\* C20 (as the code has it): capi_init returns a valid application id (> 0)
\* exactly when nothing failed; otherwise it returns -1 when the stack is
\* unavailable, the profile query failed or no controller is reported, -2
\* when the registration failed and -3 when a listen request failed
C20_InitResult ==
  \A k \in DOMAIN alog :
    /\ (alog[k].op = "none") <=> (alog[k].ch > 0)
    /\ alog[k].op \in { "stack unavailable", "profile query failed", "no controller" }
         <=> alog[k].ch = -1
    /\ (alog[k].op = "register failed") <=> (alog[k].ch = -2)
    /\ (alog[k].op = "listen failed") <=> (alog[k].ch = -3)

\* a call that failed for the unavailable stack and one that failed in the
\* profile query, with the results they returned
C20_Witness ==
  /\ Len(alog) = 2
  /\ alog[1].op = "stack unavailable" /\ alog[2].op = "profile query failed"
  /\ out.op = "capi_init" /\ out.ret = -1

\* C20 (as stated): the three named causes of failure each yield a different
\* result
C20_CausesDistinguished ==
  \A j, k \in DOMAIN alog :
    (alog[j].op \in NamedCauses /\ alog[k].op \in NamedCauses /\ alog[j].op # alog[k].op)
      => alog[j].ch # alog[k].ch

(* ------------------------------------------------------------------ *)
(* The session and its mutex, statement by statement: capi_loop with   *)
(* capi_reconnect on one thread, capi_call, capi_pickup, capi_hangup,  *)
(* capi_close and capi_session_close on the other. todo[t] is what     *)
(* thread t has still to execute, isdn_mutex who holds the mutex.      *)
(* ------------------------------------------------------------------ *)

\* one statement: its kind, a name and a number (a slot or a value)
St(op, a, b) == [ op |-> op, a |-> a, b |-> b ]

\* thread t is about to execute a statement of kind op
At(t, op) == Running /\ todo[t] # << >> /\ Head(todo[t]).op = op

\* the statement thread t is about to execute
Cur(t) == Head(todo[t])

\* thread t goes on with stmts in place of the statement it executed
Go(t, stmts) == todo' = [ todo EXCEPT ![t] = stmts \o Tail(@) ]

\* the log of thread t
LogOf(t) == IF t = "disp" THEN dlog ELSE alog

\* thread t adds es to its log
Logged(t, es) ==
  /\ dlog' = IF t = "disp" THEN dlog \o es ELSE dlog
  /\ alog' = IF t = "app" THEN alog \o es ELSE alog

\* isdn_lock(); request; isdn_unlock();
Locked(name, ch) == << St("lock", "", 0), St("req", name, ch), St("unlock", "", 0) >>

\* what the build may do when a thread locks a GMutex it holds already
\* (undefined): block for ever, abort the process, or go on
RelockOutcomes == { "block", "abort", "proceed" }

\* isdn_lock
Lock(t) ==
  /\ At(t, "lock")
  /\ IF ~session
     THEN /\ dpc' = "crashed"
          /\ UNCHANGED << isdn_mutex, held, todo >>
     ELSE \/ /\ isdn_mutex = "free"
             /\ isdn_mutex' = t /\ held' = 0 /\ Go(t, << >>)
             /\ UNCHANGED dpc
          \/ /\ isdn_mutex = t
             /\ \E o \in RelockOutcomes :
                  CASE o = "block" ->
                         /\ Go(t, << St("blocked", "", 0), Cur(t) >>)
                         /\ UNCHANGED << isdn_mutex, held, dpc >>
                    [] o = "abort" ->
                         /\ dpc' = "crashed"
                         /\ UNCHANGED << isdn_mutex, held, todo >>
                    [] OTHER ->
                         /\ Go(t, << >>) /\ held' = 0
                         /\ UNCHANGED << isdn_mutex, dpc >>
  /\ UNCHANGED << session, conn, id, input_thread_state, rm_connections, posted,
                  dslot, dlog, avars, out, msgs, reqs, appl_id, capi_loop_cancel, loop_cancel >>

\* isdn_unlock
Unlock(t) ==
  /\ At(t, "unlock")
  /\ isdn_mutex' = "free"
  /\ Go(t, << >>)
  /\ UNCHANGED << session, conn, id, input_thread_state, rm_connections, posted,
                  dpc, dslot, dlog, avars, out, msgs, reqs, appl_id,
                  capi_loop_cancel, loop_cancel, held >>

\* a wire request: one message put to or taken from the stack
Req(t) ==
  /\ At(t, "req")
  /\ Logged(t, << Ev(Cur(t).a, Cur(t).b) >>)
  /\ held' = IF isdn_mutex = t THEN held + 1 ELSE held
  /\ Go(t, << >>)
  /\ UNCHANGED << session, conn, id, input_thread_state, rm_connections, posted,
                  dpc, dslot, apc, aslot, astate, aargs, out, msgs, reqs,
                  appl_id, isdn_mutex, capi_loop_cancel, loop_cancel >>

\* capi_close, capi_reconnect or capi_session_close returns: the log of the
\* thread ends with the function and its value
Return(t) ==
  /\ At(t, "ret")
  /\ Logged(t, << Ev(Cur(t).a, Cur(t).b) >>)
  /\ Go(t, << >>)
  /\ UNCHANGED << session, conn, id, input_thread_state, rm_connections, posted,
                  dpc, dslot, apc, aslot, astate, aargs, out, msgs, reqs, appl_id,
                  isdn_mutex, capi_loop_cancel, loop_cancel, held >>

\* capi_hangup: the switch on connection->state
HangupEnter(t) ==
  /\ At(t, "capi_hangup")
  /\ LET i  == Cur(t).b
         st == conn[i].state
     IN  Go(t, CASE st \in PhysStates ->
                      Locked("DISCONNECT_REQ", conn[i].plci) \o << St("hangup_phys", "", i) >>
                 [] st \in B3States ->
                      Locked("DISCONNECT_B3_REQ", conn[i].ncci) \o << St("hangup_b3", "", i) >>
                 [] st = "RINGING" ->
                      Locked("CONNECT_RESP_REJECT", conn[i].plci) \o << St("hangup_reject", "", i) >>
                 [] OTHER -> << >>)
  /\ UNCHANGED << session, conn, id, input_thread_state, rm_connections, posted,
                  dvars, avars, out, msgs, reqs, appl_id, isdn_mutex,
                  capi_loop_cancel, loop_cancel, held >>

\* results of the requests of capi_hangup and capi_call: the stack accepts them
SessionInfos == { 0 }

\* capi_hangup after isdn_unlock: the result of the request is looked at and
\* connection->state written
HangupDone(t) ==
  /\ \/ At(t, "hangup_phys") \/ At(t, "hangup_b3") \/ At(t, "hangup_reject")
  /\ \E info \in SessionInfos :
       LET i == Cur(t).b
           r == CASE Cur(t).op = "hangup_phys"   -> HangupPhys(conn[i], rm_connections, i, info)
                  [] Cur(t).op = "hangup_b3"     -> HangupB3(conn[i], rm_connections, i, info)
                  [] OTHER                       -> HangupReject(conn[i], rm_connections, i, info)
       IN  /\ conn' = [ conn EXCEPT ![i] = r.c ]
           /\ posted' = posted \cup r.notes
           /\ Go(t, IF r.more
                    THEN Locked("DISCONNECT_REQ", conn[i].plci) \o << St("hangup_phys", "", i) >>
                    ELSE << >>)
  /\ UNCHANGED << session, id, input_thread_state, rm_connections,
                  dvars, avars, out, msgs, reqs, appl_id, isdn_mutex,
                  capi_loop_cancel, loop_cancel, held >>

\* capi_close testing the session reference only
SessionClosed_reference == ~session

\* whether capi_close finds the session closed
SessionClosed == ~session \/ appl_id = -1

\* capi_close: the test of session and appl_id; a closed session returns 0
\* at once
CloseEnter(t) ==
  /\ At(t, "capi_close")
  /\ IF SessionClosed
     THEN /\ Logged(t, << Ev("capi_close: closed", 0) >>)
          /\ Go(t, << >>)
     ELSE /\ UNCHANGED << dlog, alog >>
          /\ Go(t, [ i \in Slots |-> St("close_slot", "", i) ]
                     \o << St("release", "", 0), St("ret", "capi_close", 0) >>)
  /\ UNCHANGED << session, conn, id, input_thread_state, rm_connections, posted,
                  dpc, dslot, apc, aslot, astate, aargs, out, msgs, reqs, appl_id,
                  isdn_mutex, capi_loop_cancel, loop_cancel, held >>

\* capi_close: one turn of the loop over the slots
CloseSlot(t) ==
  /\ At(t, "close_slot")
  /\ Go(t, IF conn[Cur(t).b].plci # 0 \/ conn[Cur(t).b].ncci # 0
           THEN << St("capi_hangup", "", Cur(t).b) >> ELSE << >>)
  /\ UNCHANGED << session, conn, id, input_thread_state, rm_connections, posted,
                  dvars, avars, out, msgs, reqs, appl_id, isdn_mutex,
                  capi_loop_cancel, loop_cancel, held >>

\* capi_close: CAPI20_RELEASE and session->appl_id = -1
CloseRelease(t) ==
  /\ At(t, "release")
  /\ Logged(t, << Ev("RELEASE", appl_id) >>)
  /\ appl_id' = -1
  /\ Go(t, << >>)
  /\ UNCHANGED << session, conn, id, input_thread_state, rm_connections, posted,
                  dpc, dslot, apc, aslot, astate, aargs, out, msgs, reqs,
                  isdn_mutex, capi_loop_cancel, loop_cancel, held >>

\* the LISTEN_REQs among the calls of capi_init
Listens(log) == Cardinality({ k \in DOMAIN log : log[k].op = "LISTEN_REQ" })

\* what the stack answers to capi_init during a reconnect: it is not
\* installed any more, or it registers the application under a new id and
\* accepts the listen requests for its one or two controllers
SessionEnvs ==
  { env \in InitEnvs :
      /\ env.profile = 0 /\ env.register = 0 /\ env.appl_id = ApplId + 1
      /\ \A i \in DOMAIN env.listen : env.listen[i] = 0
      /\ env.ncontroller \in 1 .. 2
      /\ env.installed # 0 => env.ncontroller = 1 }

\* capi_reconnect: session->appl_id = capi_init(-1)
ReconnectInit(t) ==
  /\ At(t, "capi_init")
  /\ \E env \in SessionEnvs :
       LET r == capi_init(env, -1)
       IN  /\ appl_id' = r.ret
           /\ Logged(t, r.log)
           /\ held' = IF isdn_mutex = t THEN held + Listens(r.log) ELSE held
  /\ Go(t, << >>)
  /\ UNCHANGED << session, conn, id, input_thread_state, rm_connections, posted,
                  dpc, dslot, apc, aslot, astate, aargs, out, msgs, reqs,
                  isdn_mutex, capi_loop_cancel, loop_cancel >>

\* capi_reconnect
capi_reconnect ==
  << St("lock", "", 0), St("capi_close", "", 0), St("capi_init", "", 0),
     St("unlock", "", 0), St("ret", "capi_reconnect", 0) >>

\* capi_loop: the test of the cancellable; after the loop session = NULL and
\* the thread ends
LoopTop ==
  /\ At("disp", "loop")
  /\ IF loop_cancel
     THEN /\ session' = FALSE
          /\ todo' = [ todo EXCEPT !["disp"] = << >> ]
          /\ dpc' = "done"
     ELSE /\ todo' = [ todo EXCEPT !["disp"] = << St("wait", "", 0) >> \o @ ]
          /\ UNCHANGED << session, dpc >>
  /\ dlog' = << >>
  /\ UNCHANGED << conn, id, input_thread_state, rm_connections, posted,
                  dslot, avars, out, msgs, reqs, appl_id, isdn_mutex,
                  capi_loop_cancel, loop_cancel, held >>

\* messages capi_loop fetches in one behaviour
MaxFetches == 1

\* capi_loop: CAPI20_WaitforMessage(session->appl_id, ...) and what follows
\* its result: a message is fetched under the mutex, or the thread sleeps
LoopWait ==
  /\ At("disp", "wait")
  /\ IF ~session
     THEN /\ dpc' = "crashed"
          /\ UNCHANGED << todo, msgs >>
     ELSE /\ dpc' = dpc
          /\ \/ /\ appl_id > 0 /\ msgs < MaxFetches
                /\ msgs' = msgs + 1
                /\ Go("disp", Locked("GET_MESSAGE", 0) \o << St("switch", "", 0) >>)
             \/ /\ msgs' = msgs
                /\ Go("disp", << >>)
  /\ UNCHANGED << session, conn, id, input_thread_state, rm_connections, posted,
                  dslot, dlog, avars, out, reqs, appl_id, isdn_mutex,
                  capi_loop_cancel, loop_cancel, held >>

\* results of capi_get_cmsg: an indication, a confirmation,
\* CapiReceiveQueueEmpty, another error
FetchResults == { "indication", "confirmation", "empty", "error" }

\* capi_loop: switch (info)
LoopSwitch ==
  /\ At("disp", "switch")
  /\ \E info \in FetchResults :
       CASE info = "indication" ->
              /\ Go("disp", Locked("RESP", 0)) /\ UNCHANGED dpc
         [] info = "confirmation" ->
              /\ Go("disp", << >>) /\ UNCHANGED dpc
         [] info = "empty" ->
              /\ Go("disp", capi_reconnect) /\ UNCHANGED dpc
         [] OTHER ->
              /\ todo' = [ todo EXCEPT !["disp"] = << >> ]
              /\ dpc' = "done"
  /\ UNCHANGED << session, conn, id, input_thread_state, rm_connections, posted,
                  dslot, dlog, avars, out, msgs, reqs, appl_id, isdn_mutex,
                  capi_loop_cancel, loop_cancel, held >>

\* the application thread calls a function of capi.c
AppStart(stmts) ==
  /\ Running /\ todo["app"] = << >> /\ reqs < MaxReqs
  /\ reqs' = reqs + 1
  /\ alog' = << >>
  /\ todo' = [ todo EXCEPT !["app"] = stmts ]
  /\ UNCHANGED << session, conn, id, input_thread_state, rm_connections, posted,
                  dvars, apc, aslot, astate, aargs, out, msgs, appl_id,
                  isdn_mutex, capi_loop_cancel, loop_cancel, held >>

\* capi_call("1", "2", SESSION_PHONE)
AppStartCall ==
  /\ IdsLeft
  /\ AppStart(IF ~session THEN << >> ELSE << St("call_alloc", "", 0) >>)

\* capi_call: capi_get_free_connection and capi_connection_set_type
CallAlloc ==
  /\ At("app", "call_alloc")
  /\ LET g == capi_get_free_connection(session, conn, id)
     IN  IF g.ret = 0
         THEN /\ Go("app", << >>)
              /\ UNCHANGED << conn, id, aslot >>
         ELSE /\ conn' = [ g.tbl EXCEPT ![g.ret] = capi_connection_set_type(@, "PHONE") ]
              /\ id' = g.id /\ aslot' = g.ret
              /\ Go("app", Locked("CONNECT_REQ", 0) \o << St("call_done", "", g.ret) >>)
  /\ UNCHANGED << session, input_thread_state, rm_connections, posted, dvars,
                  apc, astate, aargs, alog, out, msgs, reqs, appl_id, isdn_mutex,
                  capi_loop_cancel, loop_cancel, held >>

\* capi_call after isdn_unlock: capi_set_free, or target and source
CallDone ==
  /\ At("app", "call_done")
  /\ \E err \in SessionInfos :
       LET i == Cur("app").b
           r == CallReq(conn[i], << 49 >>, << 50 >>, err)
       IN  /\ conn' = [ conn EXCEPT ![i] = r.c ]
           /\ rm_connections' =
                IF r.ok THEN rm_connections \cup { [ id |-> r.c.id, slot |-> i ] }
                ELSE rm_connections
           /\ Go("app", << >>)
  /\ aslot' = 0
  /\ UNCHANGED << session, id, input_thread_state, posted, dvars,
                  apc, astate, aargs, alog, out, msgs, reqs, appl_id, isdn_mutex,
                  capi_loop_cancel, loop_cancel, held >>

\* capi_pickup(connection, SESSION_PHONE)
AppStartPickup(i) ==
  /\ session /\ i \in Held
  /\ AppStart(<< St("pickup_type", "", i) >>)

\* capi_pickup: capi_connection_set_type and the state check
PickupType ==
  /\ At("app", "pickup_type")
  /\ LET i == Cur("app").b
     IN  /\ conn' = [ conn EXCEPT ![i] = capi_connection_set_type(@, "PHONE") ]
         /\ Go("app", IF PickupCheck(conn[i].state)
                      THEN Locked("CONNECT_RESP_ACCEPT", conn[i].plci)
                             \o << St("pickup_state", "", i) >>
                      ELSE << >>)
  /\ UNCHANGED << session, id, input_thread_state, rm_connections, posted, dvars,
                  avars, out, msgs, reqs, appl_id, isdn_mutex,
                  capi_loop_cancel, loop_cancel, held >>

\* capi_pickup after isdn_unlock: connection->state = STATE_INCOMING_WAIT
PickupState ==
  /\ At("app", "pickup_state")
  /\ conn' = [ conn EXCEPT ![Cur("app").b] = PickupResp(@).c ]
  /\ Go("app", << >>)
  /\ UNCHANGED << session, id, input_thread_state, rm_connections, posted, dvars,
                  avars, out, msgs, reqs, appl_id, isdn_mutex,
                  capi_loop_cancel, loop_cancel, held >>

\* capi_hangup(connection)
AppStartHangup(i) ==
  /\ session /\ i \in Held
  /\ AppStart(<< St("capi_hangup", "", i) >>)

\* capi_close()
AppStartClose ==
  /\ Running
  /\ AppStart(<< St("capi_close", "", 0) >>)

\* how capi_session_close finds the session: its reference cleared, its
\* appl_id -1, or neither
Found == IF ~session THEN "CLEARED" ELSE IF appl_id = -1 THEN "SENTINEL" ELSE "OPEN"

\* capi_session_close()
AppStartSessionClose ==
  /\ Running
  /\ AppStart(<< St("capi_close", "", 0), St("cancel", Found, 0), St("clear", Found, 0),
                 St("ret", "capi_session_close: " \o Found, 0) >>)

\* capi_session_close: g_cancellable_cancel(capi_loop_cancel)
Cancel ==
  /\ At("app", "cancel")
  /\ capi_loop_cancel' = TRUE /\ loop_cancel' = TRUE
  /\ Go("app", << >>)
  /\ UNCHANGED << session, conn, id, input_thread_state, rm_connections, posted,
                  dvars, avars, out, msgs, reqs, appl_id, isdn_mutex, held >>

\* capi_session_close: session = NULL
ClearSession ==
  /\ At("app", "clear")
  /\ session' = FALSE
  /\ Go("app", << >>)
  /\ UNCHANGED << conn, id, input_thread_state, rm_connections, posted,
                  dvars, avars, out, msgs, reqs, appl_id, isdn_mutex,
                  capi_loop_cancel, loop_cancel, held >>

\* states of the connections the table holds when the behaviour begins
SessionStates == { "FREE", "CONNECT_WAIT", "CONNECTED", "RINGING" }

\* a session in use with capi_loop running, or a session capi_session_close
\* has closed
InitSession ==
  /\ id = FirstId + CAPI_CONNECTIONS
  /\ input_thread_state = 0
  /\ posted = {}
  /\ dslot = 0 /\ dlog = << >>
  /\ apc = "idle" /\ aslot = 0 /\ astate = "IDLE" /\ aargs = NoArgs /\ alog = << >>
  /\ out = NoOut
  /\ msgs = 0 /\ reqs = 0
  /\ isdn_mutex = "free" /\ held = 0
  /\ \/ /\ session = TRUE /\ appl_id = ApplId /\ capi_loop_cancel = FALSE
        /\ loop_cancel = FALSE
        /\ dpc = "wait"
        /\ todo = [ NoTodo EXCEPT !["disp"] = << St("loop", "", 0) >> ]
        /\ \E st \in [ Slots -> SessionStates ] :
             /\ conn = [ i \in Slots |-> CallConn(i, st[i]) ]
             /\ rm_connections =
                  { [ id |-> FirstId + i - 1, slot |-> i ] :
                      i \in { j \in Slots : st[j] # "FREE" } }
     \/ /\ session = FALSE /\ appl_id = -1 /\ capi_loop_cancel = TRUE
        /\ loop_cancel = TRUE
        /\ dpc = "done"
        /\ todo = NoTodo
        /\ conn = [ i \in Slots |-> ZeroConn ]
        /\ rm_connections = {}

\* a step of thread t
ThreadStep(t) ==
  \/ Lock(t) \/ Unlock(t) \/ Req(t) \/ Return(t)
  \/ HangupEnter(t) \/ HangupDone(t)
  \/ CloseEnter(t) \/ CloseSlot(t) \/ CloseRelease(t)
  \/ ReconnectInit(t)

NextSession ==
  \/ \E t \in Threads : ThreadStep(t)
  \/ LoopTop \/ LoopWait \/ LoopSwitch
  \/ AppStartCall \/ CallAlloc \/ CallDone
  \/ \E i \in Slots : AppStartPickup(i)
  \/ PickupType \/ PickupState
  \/ \E i \in Slots : AppStartHangup(i)
  \/ AppStartClose \/ AppStartSessionClose
  \/ Cancel \/ ClearSession

SpecSession == InitSession /\ [][NextSession]_vars

(* ------------------------------------------------------------------ *)
(* capi_close and capi_session_close on their own: the session is in   *)
(* use, or its appl_id is -1 (capi_reconnect left it so when capi_init *)
(* failed with -1; capi_loop then sleeps), or capi_session_close has   *)
(* cleared the reference before                                        *)
(* ------------------------------------------------------------------ *)

InitClose ==
  /\ id = FirstId + CAPI_CONNECTIONS
  /\ input_thread_state = 0
  /\ posted = {}
  /\ dslot = 0 /\ dlog = << >>
  /\ apc = "idle" /\ aslot = 0 /\ astate = "IDLE" /\ aargs = NoArgs /\ alog = << >>
  /\ out = NoOut
  /\ msgs = 0 /\ reqs = 0
  /\ isdn_mutex = "free" /\ held = 0
  /\ todo = NoTodo
  /\ \/ /\ session = TRUE /\ appl_id \in { ApplId, -1 } /\ capi_loop_cancel = FALSE
        /\ loop_cancel = FALSE
        /\ dpc = "wait"
        /\ \E st \in [ Slots -> SessionStates ] :
             /\ conn = [ i \in Slots |-> CallConn(i, st[i]) ]
             /\ rm_connections =
                  { [ id |-> FirstId + i - 1, slot |-> i ] :
                      i \in { j \in Slots : st[j] # "FREE" } }
     \/ /\ session = FALSE /\ appl_id = -1 /\ capi_loop_cancel = TRUE
        /\ loop_cancel = TRUE
        /\ dpc = "done"
        /\ conn = [ i \in Slots |-> ZeroConn ]
        /\ rm_connections = {}

NextClose ==
  \/ AppStartClose \/ AppStartSessionClose
  \/ CloseEnter("app") \/ CloseSlot("app") \/ CloseRelease("app")
  \/ HangupEnter("app") \/ HangupDone("app")
  \/ Lock("app") \/ Req("app") \/ Unlock("app")
  \/ Return("app") \/ Cancel \/ ClearSession

SpecClose == InitClose /\ [][NextClose]_vars

\* the session, its table and what the application sees of them
Closable ==
  << session, appl_id, capi_loop_cancel, isdn_mutex, conn, id, rm_connections,
     posted, input_thread_state >>

\* the application thread is inside a capi_session_close that found the
\* session as said
InSessionClose(found) ==
  /\ todo["app"] # << >>
  /\ todo["app"][Len(todo["app"])] = St("ret", "capi_session_close: " \o found, 0)

\* C12 (as the code has it): capi_close on a session whose reference is
\* cleared or whose appl_id is -1 changes nothing, sends nothing and returns
\* 0; capi_session_close on a session whose reference is cleared changes
\* nothing; capi_session_close on either kind of closed session sends no
\* hangup and no release and returns 0
C12_CloseIdempotent ==
  [][ /\ (At("app", "capi_close") /\ SessionClosed)
         => (UNCHANGED Closable /\ alog' = Append(alog, Ev("capi_close: closed", 0)))
      /\ InSessionClose("CLEARED") => UNCHANGED Closable
      /\ \A f \in { "CLEARED", "SENTINEL" } :
           (InSessionClose(f) /\ At("app", "ret"))
             => alog' = << Ev("capi_close: closed", 0),
                           Ev("capi_session_close: " \o f, 0) >>
    ]_vars

\* capi_session_close has returned from a session whose reference was
\* cleared already
C12_Witness ==
  /\ todo["app"] = << >>
  /\ alog = << Ev("capi_close: closed", 0), Ev("capi_session_close: CLEARED", 0) >>

\* C12 (as stated): no step of a capi_session_close on a closed session,
\* whichever way it is closed, changes any state
C12_CloseChangesNothing ==
  [][ \A f \in { "CLEARED", "SENTINEL" } : InSessionClose(f) => UNCHANGED Closable ]_vars

(* ------------------------------------------------------------------ *)
(* Properties of the session and its mutex                             *)
(* ------------------------------------------------------------------ *)

\* thread t waits for a mutex that will not be released
Blocked(t) == todo[t] # << >> /\ Head(todo[t]).op = "blocked"

\* how often op occurs in a log
Count(log, op) == Cardinality({ k \in DOMAIN log : log[k].op = op })

\* C13: after CapiReceiveQueueEmpty capi_loop runs one reconnect cycle and
\* goes on with its loop, whatever the table holds: the dispatch thread never
\* gets stuck in the cycle, and when capi_init has returned in it the thread
\* has released the registration once at most (not at all if the application
\* closed the session meanwhile), registered once and stored the id it was
\* registered under
C13_ReconnectResumes ==
  [][ /\ ~Blocked("disp")'
      /\ (At("disp", "capi_init") /\ todo' # todo)
           => /\ Count(dlog', "RELEASE") <= 1
              /\ Count(dlog', "REGISTER") <= 1
              /\ \A k \in DOMAIN dlog' :
                   (dlog'[k].op = "REGISTER" /\ dlog'[k].ch > 0) => appl_id' = dlog'[k].ch
    ]_vars

\* the requests that put a message on the wire or take one off it
WireOps ==
  { "CONNECT_REQ", "CONNECT_RESP_ACCEPT", "CONNECT_RESP_REJECT", "DISCONNECT_REQ",
    "DISCONNECT_B3_REQ", "LISTEN_REQ", "GET_MESSAGE", "RESP" }

\* the wire requests in a log
Wire(log) == Cardinality({ k \in DOMAIN log : log[k].op \in WireOps })

\* C14: every wire request is made by a thread that holds isdn_mutex, each
\* acquisition of the mutex covers one request only, and no thread acquires
\* the mutex while it holds it
C14_OneRequestPerLock ==
  [][ \A t \in Threads :
        /\ Wire(LogOf(t)') > Wire(LogOf(t))
             => (isdn_mutex = t /\ held + Wire(LogOf(t)') - Wire(LogOf(t)) <= 1)
        /\ (At(t, "lock") /\ todo'[t] # todo[t]) => isdn_mutex # t
    ]_vars

\* C15: the application thread writes no field of a slot unless it holds
\* isdn_mutex
C15_AppWritesUnderMutex ==
  [][ (todo'["app"] # todo["app"] /\ conn' # conn) => isdn_mutex = "app" ]_vars

\* both threads are scheduled: a thread that can take a step takes one
SpecSessionFair ==
  SpecSession /\ WF_vars(ThreadStep("disp") \/ LoopTop \/ LoopWait \/ LoopSwitch)
              /\ WF_vars(ThreadStep("app") \/ CallAlloc \/ CallDone \/ PickupType
                           \/ PickupState \/ Cancel \/ ClearSession)

\* C17: once capi_loop_cancel is cancelled, capi_loop comes to its end (or
\* the process has ended)
C17_CancelTerminates ==
  capi_loop_cancel ~> (todo["disp"] = << >> \/ dpc = "crashed")

(* ------------------------------------------------------------------ *)
(* capi_indication, cases CAPI_FACILITY and CAPI_INFO                  *)
(* ------------------------------------------------------------------ *)

\* isdigit in the "C" locale
isdigit(ch) == ch \in 48 .. 57

\* '*'
ChStar == 42

\* connection_code: g_debug of the code, nothing else
connection_code(code) == << Ev("connection_code", code) >>

\* capi_get_dtmf_code passing every code but 0 on
capi_get_dtmf_code_any(dtmf) ==
  IF dtmf = 0 THEN << >> ELSE connection_code(dtmf)

\* capi_get_dtmf_code: what it hands to connection_code
capi_get_dtmf_code(dtmf) ==
  IF dtmf = 0 THEN << >>
  ELSE IF ~isdigit(dtmf) /\ dtmf # ChHash /\ dtmf # ChStar THEN << >>
  ELSE connection_code(dtmf)

\* facility selectors: DTMF, supplementary services, another one
Selectors == { 1, 3, 2 }

\* byte 1 of the facility parameter of a DTMF indication: the codes 0, '0',
\* '5', '9', '*', '#', '/', ':' and 'A'
Tones == { 0, 48, 53, 57, 42, 35, 47, 58, 65 }

\* byte 1 of the facility parameter of a supplementary service indication:
\* the low byte of the service code, retrieve (0x0203) or hold (0x0202)
ServiceLow == { 3, 2 }

\* byte 3 of that parameter: the high byte of the service code
ServiceHigh == { 2, 0 }

\* the name a facility indication is logged under, by selector
FacilityCmd(sel) ==
  CASE sel = 1 -> "IND_FACILITY_DTMF"
    [] sel = 3 -> "IND_FACILITY_SUPPLEMENTARY"
    [] OTHER   -> "IND_FACILITY_UNHANDLED"

\* capi_indication, case CAPI_FACILITY, after capi_find_plci: p1 and p3 are
\* bytes 1 and 3 of the parameter, b3 the result of CONNECT_B3_REQ, h1 and h2
\* the results of the requests of capi_hangup
Facility(c, reg, i, sel, p1, p3, b3, h1, h2) ==
  LET resp == << Ev("FACILITY_RESP", c.plci) >>
      nTmp == p1 + 256 * p3
      hup  == capi_hangup(c, reg, i, h1, h2)
  IN  CASE sel = 1 ->
             [ c |-> c, log |-> resp \o capi_get_dtmf_code(p1), notes |-> {} ]
        [] sel = 3 /\ nTmp = 515 ->
             IF b3 # 0
             THEN [ c     |-> hup.c,
                    log   |-> resp \o << Ev("CONNECT_B3_REQ", c.plci) >> \o hup.log,
                    notes |-> connection_status(reg, c, i) \cup hup.notes ]
             ELSE [ c     |-> [ c EXCEPT !.state = "CONNECT_ACTIVE" ],
                    log   |-> resp \o << Ev("CONNECT_B3_REQ", c.plci) >>,
                    notes |-> {} ]
        [] OTHER -> [ c |-> c, log |-> resp, notes |-> {} ]

\* addresses a facility indication may carry: a PLCI or an NCCI
Addresses == PLCIs \cup NCCIs

\* the handler run on one facility indication
FacilityStep(adr, sel, p1, p3, b3, h1, h2) ==
  LET plci == adr % PlciMask
      i    == capi_find_plci(conn, plci)
  IN  IF i = 0
      THEN /\ out' = Out(FacilityCmd(sel), 0, "IDLE", << Ev("FACILITY_RESP", plci) >>, p1)
           /\ UNCHANGED << conn, posted >>
      ELSE LET r == Facility(conn[i], rm_connections, i, sel, p1, p3, b3, h1, h2)
           IN  /\ conn' = [ conn EXCEPT ![i] = r.c ]
               /\ posted' = posted \cup r.notes
               /\ out' = Out(FacilityCmd(sel), i, conn[i].state, r.log, p1)

\* byte 1 of the parameter is a code under the DTMF selector and the low byte
\* of a service code under the supplementary service selector; no other
\* selector reads the parameter. Results are drawn for the requests the
\* handler sends: CONNECT_B3_REQ on a retrieve (0x0203), and those of
\* capi_hangup when that request fails
IndFacility ==
  /\ Fetch
  /\ \E adr \in Addresses, sel \in Selectors :
       CASE sel = 1 -> \E p1 \in Tones : FacilityStep(adr, sel, p1, 0, 0, 0, 0)
         [] sel = 3 ->
              \E p1 \in ServiceLow, p3 \in ServiceHigh :
                IF p1 + 256 * p3 = 515
                THEN \E b3 \in Infos :
                       IF b3 # 0
                       THEN \E h1 \in Infos, h2 \in Infos :
                              FacilityStep(adr, sel, p1, p3, b3, h1, h2)
                       ELSE FacilityStep(adr, sel, p1, p3, b3, 0, 0)
                ELSE FacilityStep(adr, sel, p1, p3, 0, 0, 0)
         [] OTHER -> FacilityStep(adr, sel, 0, 0, 0, 0, 0)
  /\ UNCHANGED << session, id, input_thread_state, rm_connections, dvars, avars >>

\* info numbers: progress indicator (0x001E) and cause (0x0008)
InfoNumbers == { 30, 8 }

\* the early-B3 path of the INFO handler taken on every progress indication,
\* whatever the state
Info_repeat(c, reg, i, info, audio, h1, h2) ==
  LET resp == << Ev("INFO_RESP", c.plci) >>
      hup  == capi_hangup(c, reg, i, h1, h2)
  IN  IF c.early_b3 # 0 /\ info = 30
      THEN IF c.type = "PHONE" /\ ~audio
           THEN [ c     |-> hup.c,
                  log   |-> resp \o << Ev("CONNECT_B3_REQ", c.plci),
                                       Ev("rm_object_emit_message", 0) >> \o hup.log,
                  notes |-> hup.notes ]
           ELSE [ c     |-> [ c EXCEPT !.state = "CONNECT_ACTIVE" ],
                  log   |-> resp \o << Ev("CONNECT_B3_REQ", c.plci) >>,
                  notes |-> {} ]
      ELSE [ c |-> c, log |-> resp, notes |-> {} ]

\* capi_indication, case CAPI_INFO, after capi_find_plci: audio is the result
\* of rm_audio_open, h1 and h2 the results of the requests of capi_hangup,
\* all three read on the early-B3 path only.
\* rm_object_emit_message is called by the handler itself
Info(c, reg, i, info, audio, h1, h2) ==
  LET resp == << Ev("INFO_RESP", c.plci) >>
      hup  == capi_hangup(c, reg, i, h1, h2)
  IN  IF c.early_b3 # 0 /\ c.state = "CONNECT_WAIT" /\ info = 30
      THEN IF c.type = "PHONE" /\ ~audio
           THEN [ c     |-> hup.c,
                  log   |-> resp \o << Ev("CONNECT_B3_REQ", c.plci),
                                       Ev("rm_object_emit_message", 0) >> \o hup.log,
                  notes |-> hup.notes ]
           ELSE [ c     |-> [ c EXCEPT !.state = "CONNECT_ACTIVE" ],
                  log   |-> resp \o << Ev("CONNECT_B3_REQ", c.plci) >>,
                  notes |-> {} ]
      ELSE [ c |-> c, log |-> resp, notes |-> {} ]

\* b3 is the result of CONNECT_B3_REQ, which the handler does not keep: it
\* is shown as the handler's value
IndInfo ==
  /\ Fetch
  /\ \E plci \in PLCIs, info \in InfoNumbers :
       LET i == capi_find_plci(conn, plci)
       IN  IF i = 0
           THEN Ignored("IND_INFO_NONE", << Ev("INFO_RESP", plci) >>)
           ELSE IF conn[i].early_b3 # 0 /\ conn[i].state = "CONNECT_WAIT" /\ info = 30
                THEN \E b3 \in Infos, audio \in BOOLEAN, h1 \in Infos, h2 \in Infos :
                       LET r == Info(conn[i], rm_connections, i, info, audio, h1, h2)
                       IN  /\ conn' = [ conn EXCEPT ![i] = r.c ]
                           /\ posted' = posted \cup r.notes
                           /\ out' = Out("IND_INFO", i, conn[i].state, r.log, b3)
                ELSE Handled("IND_INFO", i,
                             Info(conn[i], rm_connections, i, info, TRUE, 0, 0))
  /\ UNCHANGED << session, id, input_thread_state, rm_connections, dvars, avars >>

\* a table whose slots are free or hold a connection the application knows
InitSignal ==
  /\ session = TRUE
  /\ \E st \in [ Slots -> SessionStates ] :
       /\ conn = [ i \in Slots |-> CallConn(i, st[i]) ]
       /\ rm_connections =
            { [ id |-> FirstId + i - 1, slot |-> i ] : i \in { j \in Slots : st[j] # "FREE" } }
  /\ id = FirstId + CAPI_CONNECTIONS
  /\ input_thread_state = 0
  /\ posted = {}
  /\ dpc = "wait" /\ dslot = 0 /\ dlog = << >>
  /\ apc = "idle" /\ aslot = 0 /\ astate = "IDLE" /\ aargs = NoArgs /\ alog = << >>
  /\ out = NoOut
  /\ msgs = 0 /\ reqs = 0
  /\ IdleSession

\* the idle sources a handler posts stay queued: the main loop that runs them
\* is not part of this specification
NextSignal == IndFacility \/ IndInfo

SpecSignal == InitSignal /\ [][NextSignal]_vars

\* C16: the dispatch thread calls no notification of the application itself:
\* no handler's log holds a call of rm_object_emit_message
C16_NoInlineNotification ==
  \A k \in DOMAIN out.log : out.log[k].op # "rm_object_emit_message"

\* the codes capi_get_dtmf_code lets through
DtmfCodes == (48 .. 57) \cup { ChStar, ChHash }

BufLen == 70

\* longest of the short numbers tried
MaxLen == 2

\* '1', '2'
Digits == { 49, 50 }

ShortNumbers == UNION { [ 1 .. n -> Digits ] : n \in 0 .. MaxLen }

\* numbers of one digit around the size of the buffers
LongNumbers == { [ k \in 1 .. n |-> 49 ] : n \in (BufLen - 4) .. (BufLen - 2) }

\* targets behind '*' and '#'
InternNumbers == { << ChStar, 49 >>, << ChHash, 49 >> }

\* what an uninitialised byte of the stack may hold
Garbage == { 0, 49, 170 }

\* strncpy(dst, src, n): the n bytes it writes
strncpy(src, n) == [ k \in 1 .. n |-> IF k <= Len(src) THEN src[k] ELSE 0 ]

\* intern = (trg_no[0] == '*') || (trg_no[0] == '#')
intern(trg_no) == trg_no # << >> /\ trg_no[1] \in { ChStar, ChHash }

\* "**981"
StrIntern == << 42, 42, 57, 56, 49 >>

\* the array called_party_number after lines 394-396; g is what the byte the
\* code never writes holds
called_party_number(trg_no, g) ==
  << (1 + Len(trg_no)) % 256, 128 >> \o strncpy(trg_no, BufLen - 3) \o << g >>

\* the array calling_party_number after lines 399-414
calling_party_number(src_no, trg_no, call_anonymous, g) ==
  IF intern(trg_no)
  THEN << 2 + 5, 0, IF call_anonymous # 0 THEN 160 ELSE 128 >>
         \o strncpy(StrIntern, BufLen - 4) \o << g >>
  ELSE << (2 + Len(src_no)) % 256, 0, IF call_anonymous # 0 THEN 160 ELSE 128 >>
         \o strncpy(src_no, BufLen - 4) \o << g >>

\* the information element CONNECT_REQ sends from an array: the length byte
\* and as many bytes as it says, read from the array and from what follows it
Element(buf, g) ==
  [ k \in 1 .. buf[1] + 1 |-> IF k <= Len(buf) THEN buf[k] ELSE g ]

\* the arguments of one capi_call: out.ret is call_anonymous
InitNumbers ==
  /\ session = TRUE
  /\ conn = [ i \in Slots |-> ZeroConn ]
  /\ id = FirstId
  /\ input_thread_state = 0
  /\ rm_connections = {}
  /\ posted = {}
  /\ dpc = "wait" /\ dslot = 0 /\ dlog = << >>
  /\ apc = "call_numbers" /\ aslot = 0 /\ astate = "IDLE" /\ alog = << >>
  /\ \E src \in ShortNumbers \cup LongNumbers,
        trg \in ShortNumbers \cup LongNumbers \cup InternNumbers :
       aargs = [ src |-> src, trg |-> trg ]
  /\ \E call_anonymous \in { 0, 1 } :
       out = Out("capi_call", 0, "IDLE", << >>, call_anonymous)
  /\ msgs = 0 /\ reqs = 0
  /\ IdleSession

\* capi_call up to CONNECT_REQ: out.log holds the two elements sent
CallEncode ==
  /\ apc = "call_numbers"
  /\ IF Len(aargs.src) < 1 \/ Len(aargs.trg) < 1
     THEN /\ apc' = "idle"
          /\ out' = Out("call_args", 0, "IDLE", << >>, out.ret)
     ELSE /\ apc' = "call_sent"
          /\ \E g \in Garbage :
               out' = Out("CONNECT_REQ", 0, "IDLE",
                          << Element(calling_party_number(aargs.src, aargs.trg, out.ret, g), g),
                             Element(called_party_number(aargs.trg, g), g) >>,
                          out.ret)
  /\ UNCHANGED << session, conn, id, input_thread_state, rm_connections, posted,
                  dvars, aslot, astate, aargs, alog, msgs, reqs, svars >>

\* the elements read back as those of a CONNECT_IND: out.log holds the source
\* and the target number
CallDecode ==
  /\ apc = "call_sent"
  /\ apc' = "idle"
  /\ out' = Out("CONNECT_IND", 0, "IDLE",
                << capi_get_source_no(out.log[1], NullElem),
                   capi_get_target_no(out.log[2], NullElem) >>,
                out.ret)
  /\ UNCHANGED << session, conn, id, input_thread_state, rm_connections, posted,
                  dvars, aslot, astate, aargs, alog, msgs, reqs, svars >>

NextNumbers == CallEncode \/ CallDecode

SpecNumbers == InitNumbers /\ [][NextNumbers]_vars

\* C19: for every non-empty source and every target not starting with '*' or
\* '#', with anonymity off, the elements capi_call builds decode through
\* capi_get_source_no and capi_get_target_no to the source and the target
C19_RoundTrip ==
  (out.op = "CONNECT_IND" /\ ~intern(aargs.trg) /\ out.ret = 0)
    => out.log = << aargs.src, aargs.trg >>

\* the round trip of the numbers that fit the arrays with their length byte:
\* sources of at most BufLen - 4 and targets of at most BufLen - 3 characters
NumbersRoundTripInBuffer ==
  (out.op = "CONNECT_IND" /\ ~intern(aargs.trg)
     /\ Len(aargs.src) <= BufLen - 4 /\ Len(aargs.trg) <= BufLen - 3)
    => out.log = << aargs.src, aargs.trg >>

(* ------------------------------------------------------------------ *)
(* Bearer negotiation                                                  *)
(* ------------------------------------------------------------------ *)

\* a log holds an entry of that name
Has(log, op) == \E k \in DOMAIN log : log[k].op = op

\* C21: whenever a bearer connect-request of the dispatch thread fails, a
\* hangup of the physical channel is initiated, on the progress indication
\* as on the active indication
C21_BearerFailureHangsUp ==
  [][ (out'.op \in { "IND_INFO", "IND_CONNECT_ACTIVE" }
         /\ Has(out'.log, "CONNECT_B3_REQ") /\ out'.ret # 0)
        => Has(out'.log, "DISCONNECT_REQ") ]_vars

\* kinds of an outbound call
BearerKinds == { "PHONE", "FAX" }

\* an outbound connection after its connect confirmation: the kind bound by
\* capi_call, the PLCI of the confirmation, CONNECT_WAIT
BearerConn(i, kind) ==
  IF kind = "FREE" THEN ZeroConn
  ELSE capi_connection_set_type(
         [ ZeroConn EXCEPT !.id = FirstId + i - 1, !.plci = i, !.state = "CONNECT_WAIT" ],
         kind)

\* a table of free slots and outbound connections in CONNECT_WAIT
InitBearer ==
  /\ session = TRUE
  /\ \E kind \in [ Slots -> BearerKinds \cup { "FREE" } ] :
       /\ conn = [ i \in Slots |-> BearerConn(i, kind[i]) ]
       /\ rm_connections =
            { [ id |-> FirstId + i - 1, slot |-> i ] : i \in { j \in Slots : kind[j] # "FREE" } }
  /\ id = FirstId + CAPI_CONNECTIONS
  /\ input_thread_state = 0
  /\ posted = {}
  /\ dpc = "wait" /\ dslot = 0 /\ dlog = << >>
  /\ apc = "idle" /\ aslot = 0 /\ astate = "IDLE" /\ aargs = NoArgs /\ alog = << >>
  /\ out = NoOut
  /\ msgs = 0 /\ reqs = 0
  /\ IdleSession

\* the handler ran on connection i with result r; dlog keeps the history of
\* the thread: the indication received, then what its handler did
Recorded(cmd, mark, i, r) ==
  /\ conn' = [ conn EXCEPT ![i] = r.c ]
  /\ posted' = posted \cup r.notes
  /\ out' = Out(cmd, i, conn[i].state, r.log, 0)
  /\ dlog' = dlog \o << Ev(mark, conn[i].plci) >> \o r.log

\* an INFO indication: progress (0x001E) or another info number
BearerInfo ==
  /\ Fetch
  /\ \E plci \in PLCIs, info \in InfoNumbers :
       LET i    == capi_find_plci(conn, plci)
           mark == IF info = 30 THEN "progress" ELSE "info"
       IN  IF i = 0
           THEN /\ Ignored("IND_INFO_NONE", << Ev("INFO_RESP", plci) >>)
                /\ dlog' = dlog
           ELSE IF conn[i].early_b3 # 0 /\ conn[i].state = "CONNECT_WAIT" /\ info = 30
                THEN \E audio \in BOOLEAN, h1 \in Infos, h2 \in Infos :
                       Recorded("IND_INFO", mark, i,
                                Info(conn[i], rm_connections, i, info, audio, h1, h2))
                ELSE Recorded("IND_INFO", mark, i,
                              Info(conn[i], rm_connections, i, info, TRUE, 0, 0))
  /\ UNCHANGED << session, id, input_thread_state, rm_connections, dpc, dslot, avars >>

\* the one CONNECT_ACTIVE indication of a connection
BearerActive ==
  /\ Fetch
  /\ \E plci \in PLCIs :
       LET i == capi_find_plci(conn, plci)
       IN  /\ ~ (\E k \in DOMAIN dlog : dlog[k] = Ev("active", plci))
           /\ IF i = 0
              THEN /\ Ignored("IND_CONNECT_ACTIVE_NONE", << Ev("CONNECT_ACTIVE_RESP", plci) >>)
                   /\ dlog' = dlog
              ELSE \E audio \in BOOLEAN, b3 \in Infos, h1 \in Infos, h2 \in Infos :
                     Recorded("IND_CONNECT_ACTIVE", "active", i,
                              ConnectActive(conn[i], rm_connections, i, audio, b3, h1, h2))
  /\ UNCHANGED << session, id, input_thread_state, rm_connections, dpc, dslot, avars >>

NextBearer == BearerInfo \/ BearerActive

SpecBearer == InitBearer /\ [][NextBearer]_vars

\* where the history holds that entry
Pos(op, plci) == { k \in DOMAIN dlog : dlog[k] = Ev(op, plci) }

\* C22: for an outbound connection that was in CONNECT_WAIT, whatever the
\* order of its progress indications and its one active indication, at most
\* one bearer connect-request is issued: a connection of an early-bearer kind
\* issues it on the first progress indication and at no other indication, one
\* of a deferred-bearer kind on the active indication and at no other
C22_FirstIndicationWins ==
  \A i \in Slots :
    conn[i].plci # 0 =>
      LET p    == conn[i].plci
          b3   == Pos("CONNECT_B3_REQ", p)
          prog == Pos("progress", p)
          act  == Pos("active", p)
      IN  /\ Cardinality(b3) <= 1
          /\ conn[i].early_b3 # 0 =>
               b3 = IF prog = {} THEN {} ELSE { First(prog) + 2 }
          /\ conn[i].early_b3 = 0 =>
               b3 = IF act = {} THEN {} ELSE { First(act) + 2 }

\* a phone call got two progress indications and its active indication, and
\* one bearer connect-request
C22_Witness ==
  \E i \in Slots :
    /\ conn[i].early_b3 # 0
    /\ Cardinality(Pos("progress", conn[i].plci)) = 2
    /\ Cardinality(Pos("active", conn[i].plci)) = 1
    /\ Cardinality(Pos("CONNECT_B3_REQ", conn[i].plci)) = 1

\* C23: each bearer-active indication for a connection of the table runs the
\* initializer of the bound kind once, issues one DTMF-enable facility
\* request, stores the NCCI, sets CONNECTED and raises one 'connected'
\* notification for the connection the application holds
C23_BearerActive ==
  [][ out'.op = "IND_CONNECT_B3_ACTIVE" =>
        LET i     == out'.slot
            c     == conn[i]
            known == rm_connection_find_by_id(rm_connections, c.id)
        IN  /\ conn'[i].state = "CONNECTED"
            /\ conn'[i].ncci \in NCCIs /\ PlciOfNcci(conn'[i].ncci) = c.plci
            /\ out'.log[1] = Ev("CONNECT_B3_ACTIVE_RESP", conn'[i].ncci)
            /\ Count(out'.log, "FACILITY_REQ") = 1
            /\ Count(out'.log, "init_data") = IF c.hooks # "none" THEN 1 ELSE 0
            /\ c.hooks = "fax" => conn'[i].priv
            /\ (c.hooks = "phone" /\ input_thread_state = 0) => input_thread_state' = 1
            /\ Count(out'.log, "post") = IF known THEN 1 ELSE 0
            /\ known => Note("connect", conn'[i], i) \in posted'
            /\ posted' \ posted \subseteq { Note("connect", conn'[i], i) }
    ]_vars

\* a phone connection the application holds became CONNECTED: its input
\* thread runs and its 'connected' notification is posted
C23_Witness ==
  /\ out.op = "IND_CONNECT_B3_ACTIVE" /\ out.slot # 0
  /\ conn[out.slot].state = "CONNECTED" /\ conn[out.slot].ncci # 0
  /\ conn[out.slot].hooks = "phone" /\ input_thread_state = 1
  /\ Count(out.log, "init_data") = 1 /\ Count(out.log, "FACILITY_REQ") = 1
  /\ Note("connect", conn[out.slot], out.slot) \in posted

\* the states a connection with a bearer channel is left in by the handlers
\* and by capi_hangup, all of which keep the NCCI
TeardownStates ==
  { "CONNECT_B3_WAIT", "CONNECTED", "DISCONNECT_B3_REQ", "DISCONNECT_ACTIVE", "IDLE" }

\* a table of connections that have a bearer channel, each in one of these
\* states, known to the application
InitRelease ==
  /\ session = TRUE
  /\ \E st \in [ Slots -> TeardownStates ] :
       conn = [ i \in Slots |-> [ HangupConn(i, st[i]) EXCEPT !.ncci = NcciOf(i) ] ]
  /\ id = FirstId + CAPI_CONNECTIONS
  /\ input_thread_state = 0
  /\ rm_connections = { [ id |-> FirstId + i - 1, slot |-> i ] : i \in Slots }
  /\ posted = {}
  /\ dpc = "wait" /\ dslot = 0 /\ dlog = << >>
  /\ apc = "idle" /\ aslot = 0 /\ astate = "IDLE" /\ aargs = NoArgs /\ alog = << >>
  /\ out = NoOut
  /\ msgs = 0 /\ reqs = 0
  /\ IdleSession

\* the bearer and the physical disconnect indications, with no input thread
\* running, and the main loop
NextRelease ==
  \/ IndDisconnectB3
  \/ IndDisconnect
  \/ DiscTeardown
  \/ DiscNotify
  \/ DiscFree
  \/ Deliver

SpecRelease == InitRelease /\ [][NextRelease]_vars

C24_WitnessActive ==
  /\ out.op = "IND_DISCONNECT_B3" /\ out.st = "DISCONNECT_B3_REQ"
  /\ Len(out.log) = 2 /\ out.log[2] = Ev("DISCONNECT_REQ", conn[out.slot].plci)

(* ------------------------------------------------------------------ *)
(* Confirmations, reconnect, teardown, allocation                      *)
(* ------------------------------------------------------------------ *)

\* C25: an alert confirmation with an info that is neither 0 nor 3 forces the
\* connection of its PLCI to IDLE and raises a failure status notification
\* for it (the application holding the connection)
C25_AlertFailureStatus ==
  [][ (out'.op = "CONF_ALERT_ERR" /\ out'.slot # 0
         /\ rm_connection_find_by_id(rm_connections, conn[out'.slot].id))
        => /\ conn'[out'.slot].state = "IDLE"
           /\ \E n \in posted' : n.kind = "status" /\ n.id = conn[out'.slot].id
    ]_vars

\* capi_session_init(host, controller) with no session yet: alog keeps the
\* number of controllers the profile reported, the calls of capi_init and the
\* controller argument
SessionInit ==
  /\ ~session /\ alog = << >>
  /\ \E env \in InitEnvs, controller \in Controllers :
       LET r == capi_init(env, controller)
       IN  IF r.ret <= 0
           THEN /\ out' = Out("capi_session_init", 0, "IDLE", r.log, 0)
                /\ alog' = << Ev("failed", r.ret) >>
                /\ UNCHANGED << session, appl_id >>
           ELSE /\ session' = TRUE
                /\ appl_id' = r.ret
                /\ alog' = << Ev("GET_PROFILE", env.ncontroller) >> \o r.log
                             \o << Ev("capi_session_init", controller) >>
                /\ out' = Out("capi_session_init", 0, "IDLE", r.log, 1)
  /\ UNCHANGED << conn, id, input_thread_state, rm_connections, posted, dvars,
                  apc, aslot, astate, aargs, msgs, reqs,
                  isdn_mutex, capi_loop_cancel, loop_cancel, todo, held >>

\* capi_loop gets CapiReceiveQueueEmpty and runs capi_reconnect on the empty
\* table: capi_close releases the registration, capi_init(-1) registers
\* again with the same stack; dlog keeps what the thread did
SessionReconnect ==
  /\ session /\ appl_id > 0 /\ dlog = << >>
  /\ \E env \in { e \in InitEnvs : e.ncontroller = alog[1].ch } :
       LET r == capi_init(env, -1)
       IN  /\ appl_id' = r.ret
           /\ dlog' = << Ev("RELEASE", appl_id) >> \o r.log
           /\ out' = Out("capi_reconnect", 0, "IDLE", r.log, r.ret)
  /\ UNCHANGED << session, conn, id, input_thread_state, rm_connections, posted,
                  dpc, dslot, avars, msgs, reqs,
                  isdn_mutex, capi_loop_cancel, loop_cancel, todo, held >>

NextReinit == SessionInit \/ SessionReconnect

SpecReinit == InitInit /\ [][NextReinit]_vars

\* the controllers a log holds a listen request for
ListenSet(log) == { log[k].ch : k \in { j \in DOMAIN log : log[j].op = "LISTEN_REQ" } }

\* C26: a reconnect that registers again listens on the controllers the
\* session was registered with by capi_session_init: a single controller k
\* stays controller k, 'all' stays 'all'
C26_SameControllers ==
  (out.op = "capi_reconnect" /\ out.ret > 0) => ListenSet(dlog) = ListenSet(alog)

\* the full model with the dispatch thread scheduled fairly: whenever it can
\* take a step it eventually does. Nothing is assumed of the audio input
\* thread, of the application or of the main loop
SpecDispatchFair == Spec /\ WF_vars(DispNext)

\* C27: the handling of a physical disconnect indication always terminates:
\* the handler gets through its stages and the thread is back in its loop,
\* even if the audio input thread never acknowledges the stop request
C27_DisconnectTerminates == (dpc \in DiscStages) ~> (dpc = "wait")

\* C28: once the dispatch thread has left its loop, on cancellation or on a
\* fatal error of the fetch, the shared session reference is cleared
C28_SessionClearedOnExit == (dpc = "done") => ~session

\* C29: a slot handed out by capi_get_free_connection is handed out to nobody
\* else before it is released: an inbound connect indication that arrives
\* while capi_call holds a slot is given another slot
C29_SlotNotReallocated ==
  [][ (apc = "call_req" /\ out'.op = "IND_CONNECT" /\ out'.slot # 0)
        => out'.slot # aslot ]_vars

\* the controller's physical links: one more than the application has slots
\* for, so that a call can come in while every slot is taken
CallPlcis == 1 .. MaxPlci + 1

\* capi_indication, case CAPI_CONNECT, on any link of the controller
IndConnectAny == \E plci \in CallPlcis : Connect(plci)

\* every slot taken at the start; calls end and calls come in
NextCapacity == NextRelease \/ IndConnectAny

SpecCapacity == InitRelease /\ [][NextCapacity]_vars


\* C30: an accepted inbound connect indication that finds no free slot is
\* handled as a capacity error: the dispatch thread reads no connection record
\* through the null result, changes no slot and keeps running
C30_ExhaustionHandled ==
  [][ (dpc = "wait" /\ out'.op = "IND_CONNECT" /\ out'.slot = 0)
        => (dpc' = "wait" /\ conn' = conn) ]_vars

\* C31: an alert confirmation whose PLCI matches no slot (here: no slot holds
\* a PLCI at all) is ignored whatever its info: the dispatch thread reads no
\* record through the failed lookup, posts nothing and changes no slot
C31_UnknownAlertIgnored ==
  [][ ((\A i \in Slots : conn[i].plci = 0)
         /\ out'.op \in { "CONF_ALERT", "CONF_ALERT_ERR" })
        => (dpc' # "crashed" /\ conn' = conn /\ posted' = posted
              /\ rm_connections' = rm_connections) ]_vars

\* C32: a bearer-active indication for a connection that is not in
\* CONNECT_B3_WAIT does not move it to CONNECTED and posts no notification
C32_ConnectedOnlyFromB3Wait ==
  [][ (out'.op = "IND_CONNECT_B3_ACTIVE"
         /\ conn[out'.slot].state # "CONNECT_B3_WAIT")
        => (conn'[out'.slot].state # "CONNECTED" /\ posted' = posted) ]_vars

(* ------------------------------------------------------------------ *)
(* A session opened again after capi_session_close: the dispatch       *)
(* thread of the closed session may still be in its loop. The thread   *)
(* g_thread_new starts for the new session runs as the one modelled;   *)
(* only its start is recorded                                          *)
(* ------------------------------------------------------------------ *)

\* capi_session_init(host, controller) called by the application when no
\* other request of it is in progress
AppSessionInit ==
  /\ Running /\ todo["app"] = << >>
  /\ \E env \in SessionEnvs, controller \in Controllers :
       LET r == capi_init(env, controller)
       IN  IF session
           THEN /\ out' = Out("capi_session_init", 0, "IDLE", << >>, 1)
                /\ alog' = << >>
                /\ UNCHANGED << session, conn, input_thread_state, appl_id,
                                isdn_mutex, held, capi_loop_cancel >>
           ELSE IF r.ret <= 0
           THEN /\ out' = Out("capi_session_init", 0, "IDLE", r.log, 0)
                /\ alog' = r.log
                /\ UNCHANGED << session, conn, input_thread_state, appl_id,
                                isdn_mutex, held, capi_loop_cancel >>
           ELSE /\ session' = TRUE
                /\ conn' = [ i \in Slots |-> ZeroConn ]
                /\ input_thread_state' = 0
                /\ isdn_mutex' = "free" /\ held' = 0
                /\ appl_id' = r.ret
                /\ capi_loop_cancel' = FALSE
                /\ alog' = r.log \o << Ev("g_thread_new", r.ret) >>
                /\ out' = Out("capi_session_init", 0, "IDLE", r.log, 1)
  /\ UNCHANGED << id, rm_connections, posted, dvars, apc, aslot, astate, aargs,
                  msgs, reqs, loop_cancel, todo >>

NextRestart == NextSession \/ AppSessionInit

SpecRestart == InitSession /\ [][NextRestart]_vars

\* C33: when the session was closed and opened again before the dispatch
\* thread of the closed session saw its cancellation, the end of that thread
\* leaves the shared reference to the new session alone
C33_OldThreadKeepsNewSession ==
  [][ (session /\ loop_cancel /\ ~capi_loop_cancel
         /\ dpc = "wait" /\ dpc' = "done")
        => session' ]_vars

\* C34: whatever the interleaving of capi_session_close with the dispatch
\* thread, the dispatch thread reads no field through the shared session
\* reference once capi_session_close has cleared it: arriving at
\* CAPI20_WaitforMessage(session->appl_id, ...) or at isdn_lock with the
\* reference cleared does not end in a fault
C34_NoReadAfterClear ==
  [][ (~session /\ (At("disp", "wait") \/ At("disp", "lock"))
         /\ ~At("app", "lock"))
        => dpc' # "crashed" ]_vars

(* ------------------------------------------------------------------ *)
(* Slots are given back: the controller owes a DISCONNECT indication   *)
(* for every PLCI a slot holds, and delivers it whatever else it sent  *)
(* ------------------------------------------------------------------ *)

\* the terminal indication for plci, which a slot holds; it does not count
\* among the MaxMsgs other messages of the behaviour
Terminal(plci) ==
  /\ dpc = "wait" /\ PostRoom /\ ~FreshPlci(plci)
  /\ UNCHANGED << msgs, reqs, svars >>
  /\ Disconnect(plci)

NextLeak == Next \/ \E plci \in PLCIs : Terminal(plci)

\* capi_loop goes on with the handler it is in, the main loop runs its idle
\* sources, the controller delivers the terminal indications
SpecLeakFair ==
  /\ Init /\ [][NextLeak]_vars
  /\ WF_vars(DiscTeardown \/ DiscSpin \/ DiscNotify \/ DiscFree)
  /\ WF_vars(Deliver)
  /\ \A plci \in PLCIs : WF_vars(Terminal(plci))

\* C35: no slot leaks: while the process runs, every slot that holds a PLCI
\* or an NCCI is free again later, whatever became of its hangup
C35_NoSlotLeak ==
  \A i \in Slots : (~IsFree(conn[i])) ~> (IsFree(conn[i]) \/ dpc = "crashed")

\* the same when the audio input thread acknowledges every stop request
SlotsReleasedWhenAcknowledged ==
  ([]<>(input_thread_state # 2)) => C35_NoSlotLeak

=============================================================================
